---- MODULE Spec2Model ----
(***************************************************************************)
(* Verification model of the tile-map core of PyTmxTest:                   *)
(*   - CollisionMap     (src/tmx_explorer/map/collision.py)                *)
(*   - Map3DStructure   (src/tmx_explorer/map/structure.py)                *)
(*   - TileLayer        (src/tmx_manager.py)                               *)
(* and of the objects that move and are drawn on it:                       *)
(*   - Character        (src/tmx_explorer/entities/character.py)           *)
(*   - EntityManager    (src/tmx_explorer/entities/manager.py)             *)
(*   - AnimatedSprite   (src/tmx_explorer/entities/sprite.py)              *)
(*   - GamepadManager   (src/tmx_explorer/gamepad.py)                      *)
(*   - Camera           (src/tmx_explorer/camera.py)                       *)
(*                                                                         *)
(* Number representation.  Python floats are modelled as exact rationals   *)
(* with a fixed denominator:                                               *)
(*   - heights z, char_height      : integers counting 1/ZDen  levels      *)
(*   - pixel positions px, py      : integers counting 1/PxDen pixels      *)
(*   - footprints char_width/depth : integers counting 1/WDen  tiles       *)
(* PxDen = 2 * WDen, so (char_width * tile_width) / 2 is a whole number of *)
(* pixel units.  Every value the model draws is one on which the float     *)
(* computation of the source equals the exact rational one.                *)
(***************************************************************************)
EXTENDS Integers, Sequences, FiniteSets, TLC

VARIABLES
    pc,         \* position of the embedding caller: which object exists
    tmx,        \* the TiledMap handed to Map3DStructure(tmx_map)
    map3d,      \* the Map3DStructure object (its fields)
    collision,  \* the CollisionMap object (its fields W, H, D, data)
    call,       \* the call whose result the caller holds (NoCall when none)
    edits,      \* number of set_tile calls issued so far (bounded by MaxEdits)
    manager,    \* the EntityManager and its characters, None when there is none
    sprite,     \* the AnimatedSprite driven directly (its fields)
    gamepad,    \* the GamepadManager (connection, state, previous_state)
    camera      \* the Camera (x, y, zoom, width, height)

vars == <<pc, tmx, map3d, collision, call, edits, manager, sprite, gamepad, camera>>

\* the objects of the entity, input and camera modules
entities == <<manager, sprite, gamepad, camera>>

\* the map objects
world == <<pc, tmx, map3d, collision, edits>>

(***************************************************************************)
(* Bounds of the model                                                     *)
(***************************************************************************)
MaxW == 3
MaxD == 2
MaxH == 2
MaxSolid == 1
MaxN == 2
MaxEdits == 1

ZDen == 4 * 5
WDen == 1 + 1
PxDen == 2 * WDen

None == [kind |-> "None"]
NoCall == [op |-> "none"]

(***************************************************************************)
(* Python / numpy primitives                                               *)
(***************************************************************************)
\* int(v) of a float v = num/den: truncation toward zero
PyInt(num, den) ==
    IF num >= 0 THEN num \div den ELSE -((-num) \div den)

\* faulty variant of PyFloorDiv: the quotient truncated toward zero
PyFloorDiv_trunc(num, den, b) ==
    (IF num >= 0 THEN num \div (den * b) ELSE -((-num) \div (den * b))) * den

\* a // b for a float a = num/den and a positive int b: the floor, as a float
\* (returned with the same denominator)
PyFloorDiv(num, den, b) == (num \div (den * b)) * den

\* numpy storing a Python int into a uint16 cell: values in range are kept;
\* out-of-range values wrap modulo 2^16 (numpy 1.x) or raise OverflowError
\* (numpy 2.x)
U16 == 65536
OverflowModes == {"wrap", "raise"}
U16Fits(v) == 0 <= v /\ v < U16
U16Wrap(v) == v % U16

(***************************************************************************)
(* CollisionMap                                                            *)
(***************************************************************************)
Cells3(w, h, d) == (0 .. h - 1) \X (0 .. d - 1) \X (0 .. w - 1)

\* CollisionMap.__init__(width, height, depth)
CollisionMap(width, height, depth) ==
    [W |-> width, H |-> height, D |-> depth,
     data |-> [c \in Cells3(width, height, depth) |-> 0]]

_in_bounds(self, x, y, z) ==
    0 <= x /\ x < self.W /\ 0 <= y /\ y < self.D /\ 0 <= z /\ z < self.H

\* the object after set_flags(x, y, z, flags) returned normally
set_flags(self, x, y, z, flags) ==
    IF _in_bounds(self, x, y, z)
    THEN [self EXCEPT !.data[<<z, y, x>>] = U16Wrap(flags)]
    ELSE self

\* set_flags raises exactly when the store overflows under numpy 2.x
set_flags_raises(self, x, y, z, flags, mode) ==
    _in_bounds(self, x, y, z) /\ ~U16Fits(flags) /\ mode = "raise"

\* faulty variant of get_flags: the void is walkable
get_flags_void_walkable(self, x, y, z) ==
    IF _in_bounds(self, x, y, z) THEN self.data[<<z, y, x>>] ELSE 0

get_flags(self, x, y, z) ==
    IF _in_bounds(self, x, y, z) THEN self.data[<<z, y, x>>] ELSE 1

is_solid(self, x, y, z) == get_flags(self, x, y, z) # 0

is_walkable(self, x, y, z) == get_flags(self, x, y, z) = 0

\* faulty variant of get_stats: only cells whose flags equal 1 count as solid
get_stats_flag_one(self) ==
    LET total == self.W * self.D * self.H
        solid == Cardinality({c \in DOMAIN self.data : self.data[c] = 1})
    IN  [total_tiles |-> total, solid_tiles |-> solid, empty_tiles |-> total - solid,
         solid_percent |-> IF total > 0 THEN <<solid * 100, total>> ELSE <<0, 1>>]

\* CollisionMap.get_stats; solid_percent is the fraction <<numerator, denominator>>
get_stats(self) ==
    LET total == self.W * self.D * self.H
        solid == Cardinality({c \in DOMAIN self.data : self.data[c] # 0})
    IN  [total_tiles |-> total, solid_tiles |-> solid, empty_tiles |-> total - solid,
         solid_percent |-> IF total > 0 THEN <<solid * 100, total>> ELSE <<0, 1>>]

\* pixel_to_tile on one axis: int(p // tile_size), p in 1/PxDen pixels
pixel_to_tile_1(p, tile_size) == PyInt(PyFloorDiv(p, PxDen, tile_size), PxDen)

pixel_to_tile(px, py, tile_width, tile_height) ==
    <<pixel_to_tile_1(px, tile_width), pixel_to_tile_1(py, tile_height)>>

\* z and char_height in 1/ZDen levels; the result is a list of int levels
get_z_levels_to_check(self, z, char_height) ==
    LET z_floor == PyInt(z, ZDen)
        z_top == z + char_height
        z_ceil == PyInt(z_top, ZDen)
        levels0 == IF 0 <= z_floor /\ z_floor < self.H THEN <<z_floor>> ELSE <<>>
    IN  IF z_ceil # z_floor /\ 0 <= z_ceil /\ z_ceil < self.H
        THEN Append(levels0, z_ceil)
        ELSE levels0

\* faulty variant of AnyLevelSolid: only the first level of the list is looked at
RECURSIVE AnyLevelSolid_first(_, _, _, _, _)
AnyLevelSolid_first(self, tx, ty, z_levels, j) ==
    IF j > Len(z_levels) THEN FALSE
    ELSE is_solid(self, tx, ty, z_levels[j])

\* the inner loop "for tz in z_levels": TRUE when some level is solid
RECURSIVE AnyLevelSolid(_, _, _, _, _)
AnyLevelSolid(self, tx, ty, z_levels, j) ==
    IF j > Len(z_levels) THEN FALSE
    ELSE IF is_solid(self, tx, ty, z_levels[j]) THEN TRUE
    ELSE AnyLevelSolid(self, tx, ty, z_levels, j + 1)

\* faulty variant of CheckCorners: only the two top corners are looked at
RECURSIVE CheckCorners_top(_, _, _, _, _, _)
CheckCorners_top(self, corners, z_levels, tile_width, tile_height, i) ==
    IF i > 2 THEN TRUE
    ELSE LET t == pixel_to_tile(corners[i][1], corners[i][2], tile_width, tile_height)
         IN  IF AnyLevelSolid(self, t[1], t[2], z_levels, 1) THEN FALSE
             ELSE CheckCorners_top(self, corners, z_levels, tile_width, tile_height, i + 1)

\* the outer loop "for cx, cy in corners" with its early return False
RECURSIVE CheckCorners(_, _, _, _, _, _)
CheckCorners(self, corners, z_levels, tile_width, tile_height, i) ==
    IF i > Len(corners) THEN TRUE
    ELSE LET t == pixel_to_tile(corners[i][1], corners[i][2], tile_width, tile_height)
         IN  IF AnyLevelSolid(self, t[1], t[2], z_levels, 1) THEN FALSE
             ELSE CheckCorners(self, corners, z_levels, tile_width, tile_height, i + 1)

\* faulty variant of can_move_to_with_size: an empty footprint is accepted unchecked
can_move_to_with_size_skip_empty(self, px, py, z, char_width, char_depth, char_height, tile_width, tile_height) ==
    IF char_width = 0 /\ char_depth = 0 THEN TRUE
    ELSE LET half_width_px == (char_width * tile_width * PxDen) \div (WDen * 2)
             half_depth_px == (char_depth * tile_height * PxDen) \div (WDen * 2)
             corners == << <<px - half_width_px, py - half_depth_px>>,
                           <<px + half_width_px, py - half_depth_px>>,
                           <<px - half_width_px, py + half_depth_px>>,
                           <<px + half_width_px, py + half_depth_px>> >>
         IN  CheckCorners(self, corners, get_z_levels_to_check(self, z, char_height),
                          tile_width, tile_height, 1)

can_move_to_with_size(self, px, py, z, char_width, char_depth, char_height, tile_width, tile_height) ==
    LET half_width_px == (char_width * tile_width * PxDen) \div (WDen * 2)
        half_depth_px == (char_depth * tile_height * PxDen) \div (WDen * 2)
        left == px - half_width_px
        right == px + half_width_px
        top == py - half_depth_px
        bottom == py + half_depth_px
        corners == << <<left, top>>, <<right, top>>, <<left, bottom>>, <<right, bottom>> >>
        z_levels == get_z_levels_to_check(self, z, char_height)
    IN  CheckCorners(self, corners, z_levels, tile_width, tile_height, 1)

\* faulty variant of can_change_height: the ceiling check is missing
can_change_height_no_ceiling(self, px, py, current_z, new_z, char_width, char_depth, char_height, tile_width, tile_height) ==
    IF new_z < 0 THEN FALSE
    ELSE can_move_to_with_size(self, px, py, new_z, char_width, char_depth,
                               char_height, tile_width, tile_height)

\* new_z in 1/ZDen levels
can_change_height(self, px, py, current_z, new_z, char_width, char_depth, char_height, tile_width, tile_height) ==
    IF new_z < 0 THEN FALSE
    ELSE IF new_z >= self.H * ZDen THEN FALSE
    ELSE can_move_to_with_size(self, px, py, new_z, char_width, char_depth,
                               char_height, tile_width, tile_height)

(***************************************************************************)
(* TiledMap input: layers, properties, tilesets (src/tmx_manager.py)       *)
(*                                                                         *)
(* A string that may hold '/' is modelled as the sequence of its           *)
(* '/'-separated components: "" is <<"">>, "A/B" is <<"A", "B">>.          *)
(* A property value is a record tagged with its Python type:               *)
(*   [t |-> "int", v |-> n], [t |-> "float", num |-> n, den |-> d],        *)
(*   [t |-> "str", v |-> s], [t |-> "bool", v |-> b].                      *)
(***************************************************************************)
EmptyStr == <<"">>

\* TileLayer.get_tile_gid(x, y); tiles is the row-major list of LayerData
get_tile_gid(layer, x, y) ==
    IF 0 <= x /\ x < layer.width /\ 0 <= y /\ y < layer.height
    THEN layer.tiles[(y * layer.width + x) + 1]
    ELSE 0

\* int(s, 0) on the strings of the model: the literal's value, or ValueError
IntLiteralValue ==
    ("7" :> 7) @@ ("-2" :> -2) @@ ("0x10" :> 16) @@ ("0b101" :> 5)

\* faulty variant of PyIntBase0: a string that is no integer literal reads as 0
PyIntBase0_lenient(s) ==
    IF s \in DOMAIN IntLiteralValue
    THEN [ok |-> TRUE, v |-> IntLiteralValue[s]]
    ELSE [ok |-> TRUE, v |-> 0]

PyIntBase0(s) ==
    IF s \in DOMAIN IntLiteralValue
    THEN [ok |-> TRUE, v |-> IntLiteralValue[s]]
    ELSE [ok |-> FALSE]

\* str.lower() on the strings of the model
PyLower(s) ==
    IF s \in {"true", "True", "TRUE"} THEN "true"
    ELSE IF s \in {"false", "False"} THEN "false"
    ELSE s

(***************************************************************************)
(* Map3DStructure                                                          *)
(***************************************************************************)
\* faulty variant of _get_layer_level: 'level' is looked up before 'z' and 'Z'
_get_layer_level_level_first(layer) ==
    LET props == layer.properties
        level == IF "level" \in DOMAIN props THEN props["level"]
                 ELSE IF "z" \in DOMAIN props THEN props["z"]
                 ELSE IF "Z" \in DOMAIN props THEN props["Z"]
                 ELSE [t |-> "int", v |-> 0]
    IN  IF level.t = "str" THEN PyIntBase0(level.v)
        ELSE IF level.t = "float" THEN [ok |-> TRUE, v |-> PyInt(level.num, level.den)]
        ELSE [ok |-> TRUE, v |-> level.v]

\* Map3DStructure._get_layer_level: [ok |-> TRUE, v |-> level], or
\* [ok |-> FALSE] when int(level, 0) raises ValueError
_get_layer_level(layer) ==
    LET props == layer.properties
        level == IF "Z" \in DOMAIN props THEN props["Z"]
                 ELSE IF "z" \in DOMAIN props THEN props["z"]
                 ELSE IF "level" \in DOMAIN props THEN props["level"]
                 ELSE [t |-> "int", v |-> 0]
    IN  IF level.t = "str" THEN PyIntBase0(level.v)
        ELSE IF level.t = "float" THEN [ok |-> TRUE, v |-> PyInt(level.num, level.den)]
        ELSE [ok |-> TRUE, v |-> level.v]

\* faulty variant of process_layer: a group is not descended into
process_layer_flat(layer, layer_name) ==
    IF layer.kind = "tile"
    THEN << [layer |-> layer,
             level |-> _get_layer_level(layer),
             name |-> IF layer_name # EmptyStr THEN layer_name ELSE layer.name] >>
    ELSE <<>>

\* process_layer(layer, layer_name): the entries appended to layer_info
RECURSIVE process_layer(_, _)
RECURSIVE process_sublayers(_, _, _)
process_layer(layer, layer_name) ==
    IF layer.kind = "tile"
    THEN << [layer |-> layer,
             level |-> _get_layer_level(layer),
             name |-> IF layer_name # EmptyStr THEN layer_name ELSE layer.name] >>
    ELSE IF layer.kind = "group"
    THEN process_sublayers(layer, layer_name, 1)
    ELSE <<>>

\* the loop "for sublayer in layer.layers" of a LayerGroup
process_sublayers(group, layer_name, i) ==
    IF i > Len(group.layers) THEN <<>>
    ELSE LET sublayer == group.layers[i]
             subname == IF layer_name # EmptyStr
                        THEN layer_name \o sublayer.name
                        ELSE sublayer.name
         IN  process_layer(sublayer, subname) \o process_sublayers(group, layer_name, i + 1)

\* Map3DStructure._extract_all_layers: the loop over tmx_map.layers
RECURSIVE _extract_all_layers(_, _)
_extract_all_layers(layers, i) ==
    IF i > Len(layers) THEN <<>>
    ELSE process_layer(layers[i], EmptyStr) \o _extract_all_layers(layers, i + 1)

SetMin(S) == CHOOSE m \in S : \A e \in S : m <= e
SetMax(S) == CHOOSE m \in S : \A e \in S : m >= e
Min2(a, b) == IF a <= b THEN a ELSE b

\* faulty variant of HeightLevels: the number of distinct levels
HeightLevels_distinct(levels, min_level, max_level) ==
    IF levels = {} THEN 1 ELSE Cardinality(levels)

\* H = max_level - min_level + 1
HeightLevels(levels, min_level, max_level) == max_level - min_level + 1

get_level_value(self, z) == z - self.level_offset

Cells4(h, d, w, n) == (0 .. h - 1) \X (0 .. d - 1) \X (0 .. w - 1) \X (0 .. n - 1)

\* the body of the loop of _load_layers for one layer_idx (0-based), applied
\* to st = [mapa, layer_names, layer_levels, raised, skipped]
LoadLayer(self, st, layer_idx, mode) ==
    LET info == self.layer_info[layer_idx + 1]
        layer == info.layer
        z == info.level + self.level_offset
        yr == Min2(layer.height, self.D)
        xr == Min2(layer.width, self.W)
        written == {c \in DOMAIN st.mapa :
                      /\ c[1] = z /\ c[4] = layer_idx
                      /\ c[2] < yr /\ c[3] < xr
                      /\ get_tile_gid(layer, c[3], c[2]) > 0}
    IN  IF ~(0 <= z /\ z < self.H)
        THEN [st EXCEPT !.skipped = @ + 1]
        ELSE IF mode = "raise" /\ \E c \in written : ~U16Fits(get_tile_gid(layer, c[3], c[2]))
        THEN [st EXCEPT !.raised = "OverflowError"]
        ELSE [st EXCEPT
                !.mapa = [c \in DOMAIN st.mapa |->
                            IF c \in written
                            THEN U16Wrap(get_tile_gid(layer, c[3], c[2]))
                            ELSE st.mapa[c]],
                !.layer_names = Append(@, info.name),
                !.layer_levels = Append(@, info.level)]

\* Map3DStructure._load_layers
RECURSIVE _load_layers(_, _, _, _)
_load_layers(self, st, layer_idx, mode) ==
    IF layer_idx >= self.N \/ st.raised # "" THEN st
    ELSE _load_layers(self, LoadLayer(self, st, layer_idx, mode), layer_idx + 1, mode)

\* phase 1 of _build_collision_map: the dict solid_lookup, as a function
\* defined on the GIDs whose tile has a 'solid' property
TileSolidValue(tile) ==
    LET prop == tile.properties["solid"]
    IN  IF prop.t = "bool" THEN prop.v
        ELSE IF prop.t = "str" THEN PyLower(prop.v) = "true"
        ELSE FALSE

RECURSIVE BuildSolidLookup(_, _, _)
BuildSolidLookup(tilesets, i, acc) ==
    IF i > Len(tilesets) THEN acc
    ELSE LET tileset == tilesets[i]
             ids == {id \in DOMAIN tileset.tiles :
                        "solid" \in DOMAIN tileset.tiles[id].properties}
             gids == {tileset.firstgid + id : id \in ids}
             acc2 == [g \in (DOMAIN acc) \cup gids |->
                        IF g \in gids
                        THEN TileSolidValue(tileset.tiles[g - tileset.firstgid])
                        ELSE acc[g]]
         IN  BuildSolidLookup(tilesets, i + 1, acc2)

\* faulty variant of solid_lookup_get: a GID missing from the lookup counts as solid
solid_lookup_get_default_true(solid_lookup, gid) ==
    IF gid \in DOMAIN solid_lookup THEN solid_lookup[gid] ELSE TRUE

\* solid_lookup.get(gid, False)
solid_lookup_get(solid_lookup, gid) ==
    IF gid \in DOMAIN solid_lookup THEN solid_lookup[gid] ELSE FALSE

\* phase 2, the loop "for n in range(self.N)" at one cell:
\* "solid", "clear", or "IndexError" when layer_levels[n] does not exist
RECURSIVE CellSolid(_, _, _, _, _, _)
CellSolid(self, solid_lookup, x, y, z, n) ==
    IF n >= self.N THEN "clear"
    ELSE IF n + 1 > Len(self.layer_levels) THEN "IndexError"
    ELSE IF /\ self.layer_levels[n + 1] = get_level_value(self, z)
            /\ self.mapa[<<z, y, x, n>>] # 0
            /\ solid_lookup_get(solid_lookup, self.mapa[<<z, y, x, n>>])
    THEN "solid"
    ELSE CellSolid(self, solid_lookup, x, y, z, n + 1)

\* the marking pass of phase 2: set_flags(x, y, z, 1) on every solid cell,
\* or IndexError when some cell's scan indexes past layer_levels
MarkSolid(coll, verdict) ==
    IF \E c \in DOMAIN coll.data : verdict[c] = "IndexError"
    THEN [raised |-> "IndexError", collision |-> coll]
    ELSE [raised |-> "",
          collision |-> [coll EXCEPT !.data =
                           [c \in DOMAIN coll.data |->
                               IF verdict[c] = "solid" THEN 1 ELSE coll.data[c]]]]

\* phase 2 with the lookup of phase 1 built
ScanMap(self, coll, solid_lookup) ==
    MarkSolid(coll, [c \in DOMAIN coll.data |->
                        CellSolid(self, solid_lookup, c[3], c[2], c[1], 0)])

\* Map3DStructure._build_collision_map on a fresh CollisionMap
_build_collision_map(self, coll, tilesets) ==
    ScanMap(self, coll, BuildSolidLookup(tilesets, 1, <<>>))

\* what the caller of Map3DStructure(tmx_map) gets when __init__ raises
InitRaised(raised, skipped) ==
    [raised |-> raised, skipped |-> skipped, map3d |-> None, collision |-> None]

\* __init__, last stage: the collision map is built
InitFinish(self, st, built) ==
    IF built.raised # "" THEN InitRaised(built.raised, st.skipped)
    ELSE [raised |-> "", skipped |-> st.skipped,
          map3d |-> self, collision |-> built.collision]

\* __init__ after _load_layers returned st
InitCollisionMap(tmx_map, self, st) ==
    IF st.raised # "" THEN InitRaised(st.raised, st.skipped)
    ELSE InitFinish(self, st,
                    _build_collision_map(self, CollisionMap(self.W, self.H, self.D),
                                         tmx_map.tilesets))

InitLoaded(tmx_map, self0, st) ==
    InitCollisionMap(tmx_map,
                     [self0 EXCEPT !.mapa = st.mapa, !.layer_names = st.layer_names,
                                   !.layer_levels = st.layer_levels],
                     st)

\* __init__ from the allocation of the 4D array to _load_layers
InitLoad(tmx_map, self0, mode) ==
    InitLoaded(tmx_map, self0,
               _load_layers(self0,
                            [mapa |-> self0.mapa, layer_names |-> <<>>,
                             layer_levels |-> <<>>, raised |-> "", skipped |-> 0],
                            0, mode))

\* __init__: the height range (min_level, max_level, H, level_offset, N)
InitRange(tmx_map, info, levels, min_level, max_level, H, mode) ==
    InitLoad(tmx_map,
             [W |-> tmx_map.width, D |-> tmx_map.height,
              tile_width |-> tmx_map.tilewidth, tile_height |-> tmx_map.tileheight,
              layer_info |-> info,
              min_level |-> min_level, max_level |-> max_level,
              H |-> H, level_offset |-> -min_level, N |-> Len(info),
              mapa |-> [c \in Cells4(H, tmx_map.height, tmx_map.width, Len(info)) |-> 0],
              layer_names |-> <<>>, layer_levels |-> <<>>],
             mode)

InitMinMax(tmx_map, info, levels, min_level, max_level, mode) ==
    InitRange(tmx_map, info, levels, min_level, max_level,
              HeightLevels(levels, min_level, max_level), mode)

InitLevels(tmx_map, info, levels, mode) ==
    InitMinMax(tmx_map, info, levels,
               IF levels # {} THEN SetMin(levels) ELSE 0,
               IF levels # {} THEN SetMax(levels) ELSE 0,
               mode)

\* __init__ once _extract_all_layers has filled layer_info
InitExtracted(tmx_map, layer_info, mode) ==
    IF \E i \in 1 .. Len(layer_info) : ~layer_info[i].level.ok
    THEN InitRaised("ValueError", 0)
    ELSE InitLevels(tmx_map,
                    [i \in 1 .. Len(layer_info) |->
                        [layer |-> layer_info[i].layer,
                         level |-> layer_info[i].level.v,
                         name |-> layer_info[i].name]],
                    {layer_info[i].level.v : i \in 1 .. Len(layer_info)},
                    mode)

\* Map3DStructure.__init__(tmx_map): [raised, skipped, map3d, collision]
Map3DStructure(tmx_map, mode) ==
    InitExtracted(tmx_map, _extract_all_layers(tmx_map.layers, 1), mode)

\* faulty variant of get_tile: the lower bounds are not checked, so a negative index
\* reads from the end of the array as numpy does
get_tile_no_lower_bound(self, x, y, z, layer) ==
    IF x < self.W /\ y < self.D /\ z < self.H /\ layer < self.N
       /\ x >= -self.W /\ y >= -self.D /\ z >= -self.H /\ layer >= -self.N
    THEN self.mapa[<<z % self.H, y % self.D, x % self.W, layer % self.N>>]
    ELSE 0

get_tile(self, x, y, z, layer) ==
    IF /\ 0 <= x /\ x < self.W /\ 0 <= y /\ y < self.D
       /\ 0 <= z /\ z < self.H /\ 0 <= layer /\ layer < self.N
    THEN self.mapa[<<z, y, x, layer>>]
    ELSE 0

set_tile_in_bounds(self, x, y, z, layer) ==
    /\ 0 <= x /\ x < self.W /\ 0 <= y /\ y < self.D
    /\ 0 <= z /\ z < self.H /\ 0 <= layer /\ layer < self.N

\* faulty variant of set_tile: the lower bounds are not checked, so a negative
\* index counts from the end of its axis
set_tile_no_lower_bound(self, x, y, z, layer, gid) ==
    IF x < self.W /\ y < self.D /\ z < self.H /\ layer < self.N
       /\ x >= -self.W /\ y >= -self.D /\ z >= -self.H /\ layer >= -self.N
    THEN [self EXCEPT !.mapa[<<z % self.H, y % self.D, x % self.W, layer % self.N>>] =
                          U16Wrap(gid)]
    ELSE self

\* the object after set_tile(x, y, z, layer, gid) returned normally
set_tile(self, x, y, z, layer, gid) ==
    IF set_tile_in_bounds(self, x, y, z, layer)
    THEN [self EXCEPT !.mapa[<<z, y, x, layer>>] = U16Wrap(gid)]
    ELSE self

\* set_tile raises exactly when the store overflows under numpy 2.x
set_tile_raises(self, x, y, z, layer, gid, mode) ==
    set_tile_in_bounds(self, x, y, z, layer) /\ ~U16Fits(gid) /\ mode = "raise"

(***************************************************************************)
(* CollisionMap: the operations as actions.  The caller is single-threaded *)
(* and synchronous: it issues a call when it holds no pending result       *)
(* (call = NoCall), and Return drops the result it holds.                  *)
(***************************************************************************)
Idle == call = NoCall

SolidCount(self) == Cardinality({c \in DOMAIN self.data : self.data[c] # 0})

FlagValues == {0, 1, 2, U16 + 1}
XArgs(self) == -1 .. self.W
YArgs(self) == -1 .. self.D
ZArgs(self) == -1 .. self.H
\* cells handed to set_flags: every cell of the map and one cell beyond each face
SetFlagsCells(self) ==
    {<<x, y, z>> \in XArgs(self) \X YArgs(self) \X ZArgs(self) : _in_bounds(self, x, y, z)}
    \cup {<<-1, 0, 0>>, <<self.W, 0, 0>>, <<0, -1, 0>>, <<0, self.D, 0>>,
          <<0, 0, -1>>, <<0, 0, self.H>>}
\* the numpy version only matters for a value that does not fit the cell
StoreModes(v) == IF U16Fits(v) THEN {"wrap"} ELSE OverflowModes

\* tile sizes in pixels handed to the queries
TileSizePairs == {<<4, 2>>}
\* pixel positions (1/PxDen px): the centre of every column from one before
\* the map to one after it and of every row from the first to one after the
\* map, and points just past the edge between tiles 0 and 1
PxCentres(self, tw) == {k * tw * PxDen + (tw * PxDen) \div 2 : k \in -1 .. self.W}
PyCentres(self, th) == {k * th * PxDen + (th * PxDen) \div 2 : k \in 0 .. self.D}
PxArgs(self, tw) == PxCentres(self, tw) \cup {tw * PxDen + 2}
PyArgs(self, th) == PyCentres(self, th) \cup {th * PxDen + 1}
\* the centre of row 0 and of the first row after the map
PyRows(self, th) == {k * th * PxDen + (th * PxDen) \div 2 : k \in {0, self.D}}
\* footprints (char_width, char_depth) in 1/WDen tiles: 0x0, 0.5x0.5, 1.5x0.5
Footprints == {<<0, 0>>, <<1, 1>>, <<3, 1>>}
\* heights z (1/ZDen levels): -1.5, -0.5, 0, 0.15, 0.5, and k, k + 0.5 up to MaxH
ZValues == {-30, -10, 0, 3, 10} \cup {k * ZDen + o : k \in 1 .. MaxH, o \in {0, 10}}
\* char_height (1/ZDen levels): 0, 0.2, 0.85, 1.6, 2.25
HeightValues == {0, 4, 17, 32, 45}
\* (z, char_height) of a move: below the map, inside level 0, across the
\* boundary between levels 0 and 1, above the map
ZMoveValues(self) == {<<-10, 4>>, <<0, 17>>, <<10, 17>>, <<self.H * ZDen, 4>>}
\* new_z: -0.05, 0, 0.5, H - 0.5, H
NewZValues(self) == {-1, 0, 10, self.H * ZDen - 10, self.H * ZDen}

InitCollision ==
    /\ pc = "collision"
    /\ tmx = None
    /\ map3d = None
    /\ collision = CollisionMap(MaxW, MaxH, MaxD)
    /\ call = NoCall
    /\ edits = 0
    /\ manager = None /\ sprite = None /\ gamepad = None /\ camera = None

SetFlags ==
    /\ pc = "collision" /\ Idle
    /\ \E c \in SetFlagsCells(collision), flags \in FlagValues :
      \E mode \in StoreModes(flags) :
        LET after == IF set_flags_raises(collision, c[1], c[2], c[3], flags, mode)
                     THEN collision
                     ELSE set_flags(collision, c[1], c[2], c[3], flags)
        IN  /\ SolidCount(after) <= MaxSolid
            /\ collision' = after
    /\ UNCHANGED <<pc, tmx, map3d, call, edits>>
    /\ UNCHANGED entities

IsSolid ==
    /\ pc = "collision" /\ Idle
    /\ \E x \in XArgs(collision), y \in YArgs(collision), z \in ZArgs(collision) :
        call' = [op |-> "is_solid", x |-> x, y |-> y, z |-> z,
                 ret |-> is_solid(collision, x, y, z)]
    /\ UNCHANGED <<pc, tmx, map3d, collision, edits>>
    /\ UNCHANGED entities

IsWalkable ==
    /\ pc = "collision" /\ Idle
    /\ \E x \in XArgs(collision), y \in YArgs(collision), z \in ZArgs(collision) :
        call' = [op |-> "is_walkable", x |-> x, y |-> y, z |-> z,
                 ret |-> is_walkable(collision, x, y, z)]
    /\ UNCHANGED <<pc, tmx, map3d, collision, edits>>
    /\ UNCHANGED entities

GetZLevelsToCheck ==
    /\ pc = "collision" /\ Idle
    /\ \E z \in ZValues, h \in HeightValues :
        call' = [op |-> "get_z_levels_to_check", z |-> z, char_height |-> h,
                 ret |-> get_z_levels_to_check(collision, z, h)]
    /\ UNCHANGED <<pc, tmx, map3d, collision, edits>>
    /\ UNCHANGED entities

CanMoveToWithSize ==
    /\ pc = "collision" /\ Idle
    /\ \E ts \in TileSizePairs, fp \in Footprints, zh \in ZMoveValues(collision) :
        \E px \in PxArgs(collision, ts[1]), py \in PyArgs(collision, ts[2]) :
            call' = [op |-> "can_move_to_with_size", px |-> px, py |-> py, z |-> zh[1],
                     char_width |-> fp[1], char_depth |-> fp[2], char_height |-> zh[2],
                     tile_width |-> ts[1], tile_height |-> ts[2],
                     ret |-> can_move_to_with_size(collision, px, py, zh[1], fp[1], fp[2],
                                                   zh[2], ts[1], ts[2])]
    /\ UNCHANGED <<pc, tmx, map3d, collision, edits>>
    /\ UNCHANGED entities

CanChangeHeight ==
    /\ pc = "collision" /\ Idle
    /\ \E ts \in TileSizePairs, fp \in {<<1, 1>>},
          current_z \in {0, 10}, new_z \in NewZValues(collision) :
        \E px \in PxCentres(collision, ts[1]), py \in PyRows(collision, ts[2]) :
            call' = [op |-> "can_change_height", px |-> px, py |-> py,
                     current_z |-> current_z, new_z |-> new_z,
                     char_width |-> fp[1], char_depth |-> fp[2], char_height |-> 17,
                     tile_width |-> ts[1], tile_height |-> ts[2],
                     ret |-> can_change_height(collision, px, py, current_z, new_z,
                                               fp[1], fp[2], 17, ts[1], ts[2])]
    /\ UNCHANGED <<pc, tmx, map3d, collision, edits>>
    /\ UNCHANGED entities

\* the caller consumes the result it holds
Return ==
    /\ ~Idle
    /\ call' = NoCall
    /\ UNCHANGED <<pc, tmx, map3d, collision, edits>>
    /\ UNCHANGED entities

\* the cell queries and the level query
NextCollision ==
    \/ SetFlags
    \/ IsSolid
    \/ IsWalkable
    \/ GetZLevelsToCheck
    \/ Return

SpecCollision == InitCollision /\ [][NextCollision]_vars

\* the movement queries
NextMove ==
    \/ SetFlags
    \/ CanMoveToWithSize
    \/ CanChangeHeight
    \/ Return

SpecMove == InitCollision /\ [][NextMove]_vars

(***************************************************************************)
(* CollisionMap: get_stats, on the model's map and on a 4 x 4 x 1 map      *)
(***************************************************************************)
\* (W, H, D) of the maps whose statistics are read
StatsDims == {<<4, 1, 4>>, <<MaxW, MaxH, MaxD>>}

InitStats ==
    /\ pc = "collision"
    /\ tmx = None
    /\ map3d = None
    /\ \E dims \in StatsDims : collision = CollisionMap(dims[1], dims[2], dims[3])
    /\ call = NoCall
    /\ edits = 0
    /\ manager = None /\ sprite = None /\ gamepad = None /\ camera = None

GetStats ==
    /\ pc = "collision" /\ Idle
    /\ call' = [op |-> "get_stats", ret |-> get_stats(collision)]
    /\ UNCHANGED <<pc, tmx, map3d, collision, edits>>
    /\ UNCHANGED entities

NextStats ==
    \/ SetFlags
    \/ GetStats
    \/ IsSolid
    \/ Return

SpecStats == InitStats /\ [][NextStats]_vars

(***************************************************************************)
(* pixel_to_tile as a pure function of integer pixel coordinates           *)
(***************************************************************************)
MaxPx == 66
PixelYArgs == {-33, -32, -1, 0, 1, 31, 32, 65}
PixelTileSizes == {1, 3, 32}

InitPixel ==
    /\ pc = "pixel"
    /\ tmx = None
    /\ map3d = None
    /\ collision = CollisionMap(1, 1, 1)
    /\ call = NoCall
    /\ edits = 0
    /\ manager = None /\ sprite = None /\ gamepad = None /\ camera = None

PixelToTile ==
    /\ pc = "pixel" /\ Idle
    /\ \E px \in -MaxPx .. MaxPx, py \in PixelYArgs,
          tw \in PixelTileSizes, th \in PixelTileSizes :
        call' = [op |-> "pixel_to_tile", px |-> px, py |-> py,
                 tile_width |-> tw, tile_height |-> th,
                 ret |-> pixel_to_tile(px * PxDen, py * PxDen, tw, th)]
    /\ UNCHANGED <<pc, tmx, map3d, collision, edits>>
    /\ UNCHANGED entities

NextPixel ==
    \/ PixelToTile
    \/ Return

SpecPixel == InitPixel /\ [][NextPixel]_vars

(***************************************************************************)
(* Map inputs of the model                                                 *)
(***************************************************************************)
IntProp(n) == [t |-> "int", v |-> n]
FloatProp(num, den) == [t |-> "float", num |-> num, den |-> den]
StrProp(str) == [t |-> "str", v |-> str]
BoolProp(b) == [t |-> "bool", v |-> b]

\* tile data patterns, by 1-based position i in the row-major list:
\*   "count": GID i everywhere (all cells distinct, none empty)
\*   "big":   GIDs above 65535 on odd positions, empty elsewhere
\*   "wall":  GID 7 on position 2, empty elsewhere
TilePattern(pat, i) ==
    IF pat = "count" THEN i
    ELSE IF pat = "big" THEN (IF i % 2 = 1 THEN U16 + i ELSE 0)
    ELSE (IF i = 2 THEN 7 ELSE 0)

TileLayer(name, width, height, properties, pat) ==
    [kind |-> "tile", name |-> <<name>>, width |-> width, height |-> height,
     properties |-> properties,
     tiles |-> [i \in 1 .. width * height |-> TilePattern(pat, i)]]

ObjectLayer(name) == [kind |-> "object", name |-> <<name>>]
LayerGroup(name, layers) == [kind |-> "group", name |-> <<name>>, layers |-> layers]

\* level properties: none (level 0), Z = -2, z = 1.7 with level = 5 (level 1)
LevelProps ==
    { <<>>,
      ("Z" :> IntProp(-2)),
      ("z" :> FloatProp(17, 10)) @@ ("level" :> IntProp(5)) }

Patterns == {"count", "big", "wall"}

\* layer sizes: a single tile, the map's size, one larger than the map
LayerDims(w, d) == {<<1, 1>>, <<w, d>>, <<w + 1, d + 1>>}

LayerVariants(w, d) ==
    {TileLayer("L", dims[1], dims[2], props, pat) :
        dims \in LayerDims(w, d), props \in LevelProps, pat \in Patterns}

\* tile properties of the tilesets: GIDs 1, 3, 7 are solid; 4, 5, 6 carry a
\* 'solid' property that is not true; 2 and every GID from 8 carry none
Tile(properties) == [properties |-> properties]
TilesetA ==
    [firstgid |-> 1,
     tiles |-> (0 :> Tile(("solid" :> BoolProp(TRUE))))
            @@ (1 :> Tile(<<>>))
            @@ (2 :> Tile(("solid" :> StrProp("True"))))
            @@ (3 :> Tile(("solid" :> BoolProp(FALSE))))]
TilesetB ==
    [firstgid |-> 5,
     tiles |-> (0 :> Tile(("solid" :> StrProp("false"))))
            @@ (1 :> Tile(("solid" :> IntProp(1))))
            @@ (2 :> Tile(("solid" :> BoolProp(TRUE))))]
TilesetChoices == {<<>>, <<TilesetA, TilesetB>>}

TiledMap(width, height, layers, tilesets) ==
    [width |-> width, height |-> height, tilewidth |-> 4, tileheight |-> 2,
     layers |-> layers, tilesets |-> tilesets]

\* layer lists with an object layer and nested groups among the tile layers
NestedLayerLists ==
    { << ObjectLayer("Objects"),
         TileLayer("Ground", MaxW, MaxD, <<>>, "count"),
         LayerGroup("Upper", << TileLayer("Walls", MaxW, MaxD, ("level" :> IntProp(1)), "wall"),
                               ObjectLayer("Spawns") >>) >> }

(***************************************************************************)
(* Map3DStructure: construction                                            *)
(***************************************************************************)
InitBuild ==
    /\ pc = "new"
    /\ \E layers \in UNION {[1 .. n -> LayerVariants(MaxW, MaxD)] : n \in 0 .. MaxN}
                     \cup NestedLayerLists,
          tilesets \in TilesetChoices :
        tmx = TiledMap(MaxW, MaxD, layers, tilesets)
    /\ map3d = None
    /\ collision = None
    /\ call = NoCall
    /\ edits = 0
    /\ manager = None /\ sprite = None /\ gamepad = None /\ camera = None

\* the caller's state once Map3DStructure(tmx_map) returned or raised
Constructed(r) ==
    /\ pc' = IF r.raised = "" THEN "built" ELSE "failed"
    /\ map3d' = r.map3d
    /\ collision' = r.collision
    /\ call' = [op |-> "Map3DStructure", raised |-> r.raised, skipped |-> r.skipped]

\* map_3d = Map3DStructure(tmx_map)
Construct ==
    /\ pc = "new" /\ Idle
    /\ \E mode \in OverflowModes : Constructed(Map3DStructure(tmx, mode))
    /\ UNCHANGED <<tmx, edits>>
    /\ UNCHANGED entities

NextBuild ==
    \/ Construct
    \/ Return

SpecBuild == InitBuild /\ [][NextBuild]_vars

(***************************************************************************)
(* Map3DStructure: construction from layer trees (groups, level            *)
(* properties) of single-tile layers                                       *)
(***************************************************************************)
\* TiledMap.get_all_layers_flat: groups expanded in place, in document order
RECURSIVE get_all_layers_flat(_, _)
get_all_layers_flat(layers, i) ==
    IF i > Len(layers) THEN <<>>
    ELSE (IF layers[i].kind = "group"
          THEN get_all_layers_flat(layers[i].layers, 1)
          ELSE <<layers[i]>>)
         \o get_all_layers_flat(layers, i + 1)

\* deepest nesting of groups around a layer
MaxNest == 2

\* the properties of the layer at the bottom of the tree, by choice number
TreeLevelProps ==
    << <<>>,
       ("speed" :> StrProp("abc")),
       ("Z" :> IntProp(-2)),
       ("z" :> IntProp(3)),
       ("level" :> IntProp(5)),
       ("Z" :> FloatProp(-17, 10)) @@ ("z" :> IntProp(3)),
       ("z" :> FloatProp(17, 10)) @@ ("level" :> IntProp(5)),
       ("Z" :> IntProp(1)) @@ ("z" :> IntProp(2)) @@ ("level" :> IntProp(3)),
       ("level" :> StrProp("0x10")),
       ("Z" :> StrProp("7")) @@ ("level" :> StrProp("abc")),
       ("Z" :> StrProp("abc")),
       ("z" :> StrProp("1.5")),
       ("z" :> StrProp("-2")) @@ ("level" :> FloatProp(17, 10)),
       ("level" :> StrProp("abc")) >>

\* names by nesting depth: of the groups (innermost first) and of the tile
\* layers placed before and after a node at that depth
GroupNames == <<"B", "A", "World", "Root">>
BeforeNames == <<"Sky", "Hills", "Trees", "Fog">>
AfterNames == <<"Water", "Sand", "Rock", "Lava">>

\* the layer at the bottom of the tree: an object layer (choice 0) or the
\* tile layer 'L' with the chosen properties
Leaf(k) ==
    IF k = 0 THEN ObjectLayer("Objects")
    ELSE TileLayer("L", 1, 1, TreeLevelProps[k], "count")

\* what stands before a node (nothing, a tile layer, an object layer) and
\* after it (nothing, a tile layer) at depth d
SiblingChoices == (0 .. 2) \X (0 .. 1)
Before(choice, d) ==
    IF choice = 0 THEN <<>>
    ELSE IF choice = 1 THEN <<TileLayer(BeforeNames[d + 1], 1, 1, <<>>, "count")>>
    ELSE <<ObjectLayer("Spawns")>>
After(choice, d) ==
    IF choice = 0 THEN <<>>
    ELSE <<TileLayer(AfterNames[d + 1], 1, 1, <<>>, "count")>>

\* the layer list whose marked node lies under d groups; sib[e] chooses the
\* siblings at depth e
RECURSIVE LayerTree(_, _, _)
LayerTree(k, d, sib) ==
    Before(sib[d][1], d)
    \o << IF d = 0 THEN Leaf(k) ELSE LayerGroup(GroupNames[d], LayerTree(k, d - 1, sib)) >>
    \o After(sib[d][2], d)

\* the layers panel described in _extract_all_layers
PanelLayers ==
    << LayerGroup("Background", << TileLayer("Sky", 1, 1, <<>>, "count"),
                                   TileLayer("Mountains", 1, 1, <<>>, "count") >>),
       LayerGroup("Ground", << TileLayer("Terrain", 1, 1, <<>>, "count"),
                               TileLayer("Decorations", 1, 1, <<>>, "count") >>),
       TileLayer("Foreground", 1, 1, <<>>, "count") >>

InitLayers ==
    /\ pc = "new"
    /\ \/ \E k \in 0 .. Len(TreeLevelProps), d \in 0 .. MaxNest,
             sib \in [0 .. MaxNest -> SiblingChoices] :
             tmx = TiledMap(1, 1, LayerTree(k, d, sib), <<TilesetA, TilesetB>>)
       \/ tmx = TiledMap(1, 1, PanelLayers, <<TilesetA, TilesetB>>)
    /\ map3d = None
    /\ collision = None
    /\ call = NoCall
    /\ edits = 0
    /\ manager = None /\ sprite = None /\ gamepad = None /\ camera = None

SpecLayers == InitLayers /\ [][NextBuild]_vars

(***************************************************************************)
(* Map3DStructure: get_tile and set_tile on a constructed map              *)
(***************************************************************************)
\* the layers of the edited maps: a small-GID layer at level 0 of the map's
\* size and a larger layer at level -2
EditLayerVariants ==
    { TileLayer("Ground", MaxW, MaxD, <<>>, "count"),
      TileLayer("Cellar", MaxW + 1, MaxD + 1, ("Z" :> IntProp(-2)), "wall") }

InitTiles ==
    /\ pc = "new"
    /\ \E layers \in UNION {[1 .. n -> EditLayerVariants] : n \in 0 .. MaxN} :
        tmx = TiledMap(MaxW, MaxD, layers, <<TilesetA, TilesetB>>)
    /\ map3d = None
    /\ collision = None
    /\ call = NoCall
    /\ edits = 0
    /\ manager = None /\ sprite = None /\ gamepad = None /\ camera = None

\* coordinates handed to get_tile and set_tile: the corner cells of the
\* index and, per axis, the two nearest values outside it
AxisArgs(n) == {-1, 0, n - 1, n}
TileCoords(self) ==
    {c \in AxisArgs(self.W) \X AxisArgs(self.D) \X AxisArgs(self.H) \X AxisArgs(self.N) :
        Cardinality({i \in 1 .. 4 : c[i] \in {-1, <<self.W, self.D, self.H, self.N>>[i]}}) <= 1}

GidArgs == {0, 1, 9, U16 + 9}

SetTile ==
    /\ pc = "built" /\ Idle
    /\ edits < MaxEdits
    /\ \E c \in TileCoords(map3d), gid \in GidArgs, mode \in OverflowModes :
        LET raises == set_tile_raises(map3d, c[1], c[2], c[3], c[4], gid, mode)
        IN  /\ map3d' = IF raises THEN map3d
                        ELSE set_tile(map3d, c[1], c[2], c[3], c[4], gid)
            /\ call' = [op |-> "set_tile", x |-> c[1], y |-> c[2], z |-> c[3],
                        layer |-> c[4], gid |-> gid, raised |-> raises]
    /\ edits' = edits + 1
    /\ UNCHANGED <<pc, tmx, collision>>
    /\ UNCHANGED entities

GetTile ==
    /\ pc = "built" /\ Idle
    /\ \E c \in TileCoords(map3d) :
        call' = [op |-> "get_tile", x |-> c[1], y |-> c[2], z |-> c[3], layer |-> c[4],
                 ret |-> get_tile(map3d, c[1], c[2], c[3], c[4])]
    /\ UNCHANGED <<pc, tmx, map3d, collision, edits>>
    /\ UNCHANGED entities

NextTiles ==
    \/ Construct
    \/ SetTile
    \/ GetTile
    \/ Return

SpecTiles == InitTiles /\ [][NextTiles]_vars

(***************************************************************************)
(* TMXExplorer.collect_visible_tiles_ordered on a constructed map          *)
(*                                                                         *)
(* The application is the record                                           *)
(*   [map_3d, camera, screen_width, screen_height, current_z,              *)
(*    layer_visibility]                                                    *)
(* with camera = [x, y, zoom], zoom the fraction <<num, den>>.  A depth is *)
(* counted in tenths: the float -1000.0 + y + z + n * 0.1 lies within      *)
(* 1e-12 of the rational the model computes, so its number of tenths is    *)
(* that integer.  Every tuple of the result is kept with the indices       *)
(* (x, y, z, n) of the tile it was made from.                              *)
(***************************************************************************)
margin_tiles == 3
level_height_offset == 128
\* base_offset = -1000.0, in tenths
base_offset == -10000

\* TilesetRenderer caches: textures and sizes exist for GIDs 1..4 and 6..7
\* (the image of GID 5 is missing)
tile_texture_cache == [gid \in (1 .. 4) \cup (6 .. 7) |-> IF gid <= 4 THEN "atlasA" ELSE "atlasB"]
tile_size_cache == [gid \in (1 .. 4) \cup (6 .. 7) |-> IF gid <= 4 THEN <<4, 2>> ELSE <<4, 4>>]

\* get_tile_texture(gid), get_tile_surface(gid): None as <<>>
get_tile_texture(gid) ==
    IF gid = 0 THEN <<>>
    ELSE IF gid \in DOMAIN tile_texture_cache THEN <<tile_texture_cache[gid]>> ELSE <<>>
get_tile_surface(gid) ==
    IF gid = 0 THEN <<>>
    ELSE IF gid \in DOMAIN tile_size_cache THEN <<tile_size_cache[gid]>> ELSE <<>>

Max2(a, b) == IF a >= b THEN a ELSE b

\* faulty variant of TileDepth: a layer counts as a whole unit of depth
TileDepth_whole_layers(y, z, n) == base_offset + 10 * y + 10 * z + 10 * n

\* depth = base_offset + y + z + (n * 0.1), in tenths
TileDepth(y, z, n) == base_offset + 10 * y + 10 * z + n

\* the body of the innermost loop for one (y, x, z, n): the tuples appended
VisibleTile(app, y, x, z, n) ==
    IF ~app.layer_visibility[n + 1] THEN <<>>
    ELSE IF app.map_3d.layer_levels[n + 1] # get_level_value(app.map_3d, z) THEN <<>>
    ELSE IF app.map_3d.mapa[<<z, y, x, n>>] = 0 THEN <<>>
    ELSE IF get_tile_texture(app.map_3d.mapa[<<z, y, x, n>>]) = <<>>
            \/ get_tile_surface(app.map_3d.mapa[<<z, y, x, n>>]) = <<>> THEN <<>>
    ELSE << [texture |-> get_tile_texture(app.map_3d.mapa[<<z, y, x, n>>])[1],
             world_x |-> x * app.map_3d.tile_width,
             world_y |-> (y + 1) * app.map_3d.tile_height
                         - get_tile_surface(app.map_3d.mapa[<<z, y, x, n>>])[1][2]
                         - z * level_height_offset,
             w |-> get_tile_surface(app.map_3d.mapa[<<z, y, x, n>>])[1][1],
             h |-> get_tile_surface(app.map_3d.mapa[<<z, y, x, n>>])[1][2],
             depth |-> TileDepth(y, z, n),
             x |-> x, y |-> y, z |-> z, n |-> n] >>

\* the four nested loops, in the order y, x, z, n
RECURSIVE VisibleLayers(_, _, _, _, _)
VisibleLayers(app, y, x, z, n) ==
    IF n >= app.map_3d.N THEN <<>>
    ELSE VisibleTile(app, y, x, z, n) \o VisibleLayers(app, y, x, z, n + 1)

RECURSIVE VisibleLevels(_, _, _, _)
VisibleLevels(app, y, x, z) ==
    IF z > app.current_z THEN <<>>
    ELSE VisibleLayers(app, y, x, z, 0) \o VisibleLevels(app, y, x, z + 1)

RECURSIVE VisibleColumns(_, _, _, _)
VisibleColumns(app, y, x, end_x) ==
    IF x >= end_x THEN <<>>
    ELSE VisibleLevels(app, y, x, 0) \o VisibleColumns(app, y, x + 1, end_x)

RECURSIVE VisibleRows(_, _, _, _, _)
VisibleRows(app, y, end_y, start_x, end_x) ==
    IF y >= end_y THEN <<>>
    ELSE VisibleColumns(app, y, start_x, end_x) \o VisibleRows(app, y + 1, end_y, start_x, end_x)

\* int(screen_edge / tile_size) for the near edge (camera - margin) and the
\* far edge (camera + screen / zoom + margin)
NearTile(camera_pos, tile_size) ==
    PyInt(camera_pos - margin_tiles * tile_size, tile_size)
FarTile(camera_pos, screen_size, zoom, tile_size) ==
    PyInt(camera_pos * zoom[1] + screen_size * zoom[2] + margin_tiles * tile_size * zoom[1],
          zoom[1] * tile_size)

VisibleRange(app, start_x, end_x, start_y, end_y) ==
    IF start_x >= end_x \/ start_y >= end_y THEN <<>>
    ELSE VisibleRows(app, start_y, end_y, start_x, end_x)

\* TMXExplorer.collect_visible_tiles_ordered: every tuple appended, in the
\* order of the loops (the batches are these tuples grouped by texture)
collect_visible_tiles_ordered(app) ==
    VisibleRange(app,
        Max2(0, NearTile(app.camera.x, app.map_3d.tile_width)),
        Min2(app.map_3d.W, FarTile(app.camera.x, app.screen_width, app.camera.zoom,
                                   app.map_3d.tile_width) + 1),
        Max2(0, NearTile(app.camera.y, app.map_3d.tile_height)),
        Min2(app.map_3d.D, FarTile(app.camera.y, app.screen_height, app.camera.zoom,
                                   app.map_3d.tile_height) + 1))

\* camera positions (pixels), zooms (1.0 and 0.5) and window sizes
CameraXs == {-40, 0, 20}
CameraYs == {0, 8}
Zooms == {<<1, 1>>, <<1, 2>>}
ScreenSizes == {<<4, 2>>, <<1280, 720>>}

\* the layers of the drawn maps: two levels one apart and a cellar
MaxDrawn == 3
DrawnLayerVariants ==
    { TileLayer("Ground", MaxW, MaxD, <<>>, "count"),
      TileLayer("Upper", MaxW, MaxD, ("Z" :> IntProp(1)), "count"),
      TileLayer("Cellar", MaxW + 1, MaxD + 1, ("Z" :> IntProp(-2)), "wall") }

\* the values of TMXExplorer.layer_visibility tried: every list of flags for
\* a map of few layers; for a taller stack all layers shown, or one hidden
LayerVisibilities(N) ==
    IF N <= MaxDrawn + 1 THEN [1 .. N -> BOOLEAN]
    ELSE {[n \in 1 .. N |-> n # hidden] : hidden \in 0 .. N}

InitRender ==
    /\ pc = "new"
    /\ \E layers \in UNION {[1 .. n -> DrawnLayerVariants] : n \in 0 .. MaxDrawn} :
        tmx = TiledMap(MaxW, MaxD, layers, <<TilesetA, TilesetB>>)
    /\ map3d = None
    /\ collision = None
    /\ call = NoCall
    /\ edits = 0
    /\ manager = None /\ sprite = None /\ gamepad = None /\ camera = None

CollectVisibleTiles ==
    /\ pc = "built" /\ Idle
    /\ \E cx \in CameraXs, cy \in CameraYs, zoom \in Zooms, screen \in ScreenSizes,
          current_z \in 0 .. map3d.H - 1,
          layer_visibility \in LayerVisibilities(map3d.N) :
        call' = [op |-> "collect_visible_tiles_ordered",
                 camera |-> [x |-> cx, y |-> cy, zoom |-> zoom],
                 current_z |-> current_z, layer_visibility |-> layer_visibility,
                 ret |-> collect_visible_tiles_ordered(
                            [map_3d |-> map3d,
                             camera |-> [x |-> cx, y |-> cy, zoom |-> zoom],
                             screen_width |-> screen[1], screen_height |-> screen[2],
                             current_z |-> current_z,
                             layer_visibility |-> layer_visibility])]
    /\ UNCHANGED <<pc, tmx, map3d, collision, edits>>
    /\ UNCHANGED entities

NextRender ==
    \/ Construct
    \/ CollectVisibleTiles
    \/ Return

SpecRender == InitRender /\ [][NextRender]_vars

(***************************************************************************)
(* Maps of many tile layers.  The loader puts no limit on the number of    *)
(* tile layers: N = len(layer_info).  A stack is MaxStack - 3 .. MaxStack  *)
(* full layers at level 0, the first of them optionally at level 1.        *)
(***************************************************************************)
MaxStack == 12

StackLayer(i, upper_first) ==
    IF i = 1 /\ upper_first
    THEN TileLayer("Upper", MaxW, MaxD, ("Z" :> IntProp(1)), "count")
    ELSE TileLayer("Ground", MaxW, MaxD, <<>>, "count")

InitStack ==
    /\ pc = "new"
    /\ \E n \in MaxStack - 3 .. MaxStack, upper_first \in BOOLEAN :
        tmx = TiledMap(MaxW, MaxD, [i \in 1 .. n |-> StackLayer(i, upper_first)],
                       <<TilesetA, TilesetB>>)
    /\ map3d = None
    /\ collision = None
    /\ call = NoCall
    /\ edits = 0
    /\ manager = None /\ sprite = None /\ gamepad = None /\ camera = None

SpecStack == InitStack /\ [][NextRender]_vars

(***************************************************************************)
(* AnimatedSprite (src/tmx_explorer/entities/sprite.py)                    *)
(*                                                                         *)
(* Times dt are counted in 1/TDen seconds, animation speeds in 1/SpeedDen  *)
(* frames per second, so animation_timer counts 1/AnimDen frames with      *)
(* AnimDen = TDen * SpeedDen.                                              *)
(***************************************************************************)
TDen == 2 * WDen
SpeedDen == WDen
AnimDen == TDen * SpeedDen

\* AnimatedSprite.__init__ and from_cached: the animation state of a new sprite
AnimatedSprite(animation_speed) ==
    [animation_speed |-> animation_speed, animation_timer |-> 0,
     current_frame |-> 0, direction |-> "DOWN", state |-> "IDLE"]

\* faulty variant of WrapFrame: the walk cycle wraps through the idle frame
WrapFrame_mod4(current_frame) == current_frame % 4

\* "while self.current_frame > 3: self.current_frame -= 3"
RECURSIVE WrapFrame(_)
WrapFrame(current_frame) ==
    IF current_frame > 3 THEN WrapFrame(current_frame - 3) ELSE current_frame

\* the frames advanced: the timer after the addition, frames_to_advance = int(timer)
AdvanceFrames(self, timer) ==
    IF PyInt(timer, AnimDen) > 0
    THEN [self EXCEPT !.animation_timer = timer - PyInt(timer, AnimDen) * AnimDen,
                      !.current_frame = WrapFrame(self.current_frame + PyInt(timer, AnimDen))]
    ELSE [self EXCEPT !.animation_timer = timer]

\* AnimatedSprite.update(dt)
AnimatedSprite_update(self, dt) ==
    IF self.state = "WALKING"
    THEN AdvanceFrames(self, self.animation_timer + dt * self.animation_speed)
    ELSE [self EXCEPT !.current_frame = 0, !.animation_timer = 0]

set_direction(self, direction) == [self EXCEPT !.direction = direction]

set_walking(self, walking) ==
    IF walking
    THEN (IF self.state # "WALKING"
          THEN [self EXCEPT !.state = "WALKING", !.current_frame = 1, !.animation_timer = 0]
          ELSE self)
    ELSE (IF self.state # "IDLE"
          THEN [self EXCEPT !.state = "IDLE", !.current_frame = 0, !.animation_timer = 0]
          ELSE self)

Directions == {"DOWN", "LEFT", "RIGHT", "UP"}
\* animation speeds 0.5, 1.5 and 8.0 (the default) frames per second
AnimationSpeeds == {1, 3, 8 * SpeedDen}
\* dt of a frame: 0, 0.25, 0.5, 1 and 3.25 seconds
SpriteDts == {0, 1, 2, 4, 13}

InitSprite ==
    /\ pc = "sprite"
    /\ tmx = None /\ map3d = None /\ collision = None
    /\ call = NoCall
    /\ edits = 0
    /\ manager = None /\ gamepad = None /\ camera = None
    /\ \E animation_speed \in AnimationSpeeds : sprite = AnimatedSprite(animation_speed)

SetWalking ==
    /\ pc = "sprite"
    /\ \E walking \in BOOLEAN :
        /\ sprite' = set_walking(sprite, walking)
        /\ call' = [op |-> "set_walking", walking |-> walking]
    /\ UNCHANGED world
    /\ UNCHANGED <<manager, gamepad, camera>>

SetDirection ==
    /\ pc = "sprite"
    /\ \E direction \in Directions :
        /\ sprite' = set_direction(sprite, direction)
        /\ call' = [op |-> "set_direction", direction |-> direction]
    /\ UNCHANGED world
    /\ UNCHANGED <<manager, gamepad, camera>>

UpdateSprite ==
    /\ pc = "sprite"
    /\ \E dt \in SpriteDts :
        /\ sprite' = AnimatedSprite_update(sprite, dt)
        /\ call' = [op |-> "update", dt |-> dt]
    /\ UNCHANGED world
    /\ UNCHANGED <<manager, gamepad, camera>>

NextSprite ==
    \/ SetWalking
    \/ SetDirection
    \/ UpdateSprite

SpecSprite == InitSprite /\ [][NextSprite]_vars

(***************************************************************************)
(* GamepadManager (src/tmx_explorer/gamepad.py)                            *)
(*                                                                         *)
(* GamepadState is the record of the left stick's x axis and the buttons   *)
(* a, b, x, y, left_bumper, back, start, dpad_up.  A raw axis value is     *)
(* counted in hundredths; a stick value after the deadzone in 1/AxisDen.   *)
(* The manager is [connected_gamepad, is_standard_gamepad, num_buttons,    *)
(* has_hat, state, previous_state]: num_buttons and has_hat describe the   *)
(* joystick GLFW reports in the slot.                                      *)
(***************************************************************************)
\* DEADZONE = 0.15, in hundredths
DEADZONE == 15
AxisDen == 100 - DEADZONE

ButtonNames == {"a", "b", "x", "y", "left_bumper", "back", "start", "dpad_up"}

\* GamepadState(**given): the fields given, every other field at its default
GamepadState(given) ==
    [f \in {"left_x"} \cup ButtonNames |->
        IF f \in DOMAIN given THEN given[f] ELSE IF f = "left_x" THEN 0 ELSE FALSE]

\* GamepadManager._apply_deadzone(value)
_apply_deadzone(value) ==
    IF value < DEADZONE /\ -value < DEADZONE THEN 0
    ELSE IF value > 0 THEN value - DEADZONE
    ELSE -(-value - DEADZONE)

\* the index of a button in the raw joystick's button array
ButtonIndex == [a |-> 0, b |-> 1, x |-> 2, y |-> 3, left_bumper |-> 4,
                back |-> 6, start |-> 7, dpad_up |-> 10]

\* _parse_gamepad_state(state): every field read from the mapped state
_parse_gamepad_state(self, hw) ==
    [self EXCEPT !.state =
        [f \in DOMAIN self.state |->
            IF f = "left_x" THEN _apply_deadzone(hw.left_x) ELSE f \in hw.pressed]]

\* the face, shoulder, menu and d-pad buttons of _parse_joystick_state
JoystickButton(self, hw, f) ==
    IF f = "dpad_up"
    THEN (IF self.num_buttons > 13 THEN f \in hw.pressed ELSE self.state[f])
    ELSE self.num_buttons > ButtonIndex[f] /\ f \in hw.pressed

\* _parse_joystick_state(): axes, then buttons when there are any, then the hat
_parse_joystick_state(self, hw) ==
    [self EXCEPT !.state =
        [f \in DOMAIN self.state |->
            IF f = "left_x" THEN _apply_deadzone(hw.left_x)
            ELSE IF f = "dpad_up" /\ self.has_hat THEN f \in hw.pressed
            ELSE IF self.num_buttons > 0 THEN JoystickButton(self, hw, f)
            ELSE self.state[f]]]

\* "self.previous_state = GamepadState(left_x=..., a=..., b=..., start=..., back=...)"
SavePrevious(self) ==
    [self EXCEPT !.previous_state =
        GamepadState([f \in {"left_x", "a", "b", "start", "back"} |-> self.state[f]])]

\* the rest of update() once the previous state is saved
ReadInput(self, hw) ==
    IF self.connected_gamepad # "None"
    THEN (IF ~hw.present
          THEN [self EXCEPT !.connected_gamepad = "None", !.state = GamepadState(<<>>)]
          ELSE IF self.is_standard_gamepad
          THEN (IF hw.state_ok THEN _parse_gamepad_state(self, hw) ELSE self)
          ELSE _parse_joystick_state(self, hw))
    ELSE self

\* GamepadManager.update()
GamepadManager_update(self, hw) == ReadInput(SavePrevious(self), hw)

\* GamepadManager.button_just_pressed(button)
button_just_pressed(self, button) ==
    (IF button \in DOMAIN self.state THEN self.state[button] ELSE FALSE)
    /\ ~(IF button \in DOMAIN self.previous_state THEN self.previous_state[button] ELSE FALSE)

\* GamepadManager.__init__ after _find_gamepad found the given device
GamepadManager(device) ==
    [connected_gamepad |-> device.jid, is_standard_gamepad |-> device.is_gamepad,
     num_buttons |-> device.num_buttons, has_hat |-> device.has_hat,
     state |-> GamepadState(<<>>), previous_state |-> GamepadState(<<>>)]

\* the devices found: none, a mapped gamepad, raw joysticks of 14 and of 8
\* buttons, the latter with its d-pad on a hat
Devices ==
    { [jid |-> "None", is_gamepad |-> FALSE, num_buttons |-> 0, has_hat |-> FALSE],
      [jid |-> "JOYSTICK_1", is_gamepad |-> TRUE, num_buttons |-> 0, has_hat |-> FALSE],
      [jid |-> "JOYSTICK_1", is_gamepad |-> FALSE, num_buttons |-> 14, has_hat |-> FALSE],
      [jid |-> "JOYSTICK_1", is_gamepad |-> FALSE, num_buttons |-> 8, has_hat |-> TRUE] }

\* what the hardware reports in one frame
PressedSets ==
    { {}, {"a"}, {"x"}, {"a", "x"}, {"start", "left_bumper"}, {"b", "y", "back", "dpad_up"} }
HardwareFrames ==
    [present : BOOLEAN, state_ok : BOOLEAN, pressed : PressedSets, left_x : {0, 10, 100}]

InitGamepad ==
    /\ pc = "gamepad"
    /\ tmx = None /\ map3d = None /\ collision = None
    /\ call = NoCall
    /\ edits = 0
    /\ manager = None /\ sprite = None /\ camera = None
    /\ \E device \in Devices : gamepad = GamepadManager(device)

UpdateGamepad ==
    /\ pc = "gamepad"
    /\ \E hw \in HardwareFrames :
        gamepad' = GamepadManager_update(gamepad, hw)
    /\ call' = [op |-> "update"]
    /\ UNCHANGED world
    /\ UNCHANGED <<manager, sprite, camera>>

ButtonJustPressed ==
    /\ pc = "gamepad"
    /\ \E button \in ButtonNames :
        call' = [op |-> "button_just_pressed", button |-> button,
                 ret |-> button_just_pressed(gamepad, button)]
    /\ UNCHANGED world
    /\ UNCHANGED entities

NextGamepad ==
    \/ UpdateGamepad
    \/ ButtonJustPressed

SpecGamepad == InitGamepad /\ [][NextGamepad]_vars

(***************************************************************************)
(* Camera (src/tmx_explorer/camera.py)                                     *)
(*                                                                         *)
(* The floats x, y and zoom are exact rationals <<numerator, denominator>> *)
(* in lowest terms with a positive denominator.                            *)
(***************************************************************************)
RECURSIVE Gcd(_, _)
Gcd(a, b) == IF b = 0 THEN a ELSE Gcd(b, a % b)
Abs(a) == IF a < 0 THEN -a ELSE a
Rat(num, den) ==
    IF den < 0 THEN <<(-num) \div Gcd(Abs(num), Abs(den)), (-den) \div Gcd(Abs(num), Abs(den))>>
    ELSE <<num \div Gcd(Abs(num), Abs(den)), den \div Gcd(Abs(num), Abs(den))>>
RatAdd(a, b) == Rat(a[1] * b[2] + b[1] * a[2], a[2] * b[2])
RatSub(a, b) == Rat(a[1] * b[2] - b[1] * a[2], a[2] * b[2])
RatMul(a, b) == Rat(a[1] * b[1], a[2] * b[2])
RatDiv(a, b) == Rat(a[1] * b[2], a[2] * b[1])
RatLess(a, b) == a[1] * b[2] < b[1] * a[2]
RatMin(a, b) == IF RatLess(b, a) THEN b ELSE a
RatMax(a, b) == IF RatLess(a, b) THEN b ELSE a

\* Camera.MIN_ZOOM = 0.1 and Camera.MAX_ZOOM = 5.0
MIN_ZOOM == <<1, 10>>
MAX_ZOOM == <<5, 1>>

\* Camera.__init__(width, height)
Camera(width, height) ==
    [x |-> <<0, 1>>, y |-> <<0, 1>>, zoom |-> <<1, 1>>, width |-> width, height |-> height]

\* Camera.move(dx, dy)
Camera_move(self, dx, dy) ==
    [self EXCEPT !.x = RatAdd(self.x, RatDiv(dx, self.zoom)),
                 !.y = RatAdd(self.y, RatDiv(dy, self.zoom))]

\* the third step of set_zoom: the camera put back around the centre
Recentre(self, center_x, center_y, zoom) ==
    [self EXCEPT !.zoom = zoom,
                 !.x = RatSub(center_x, RatDiv(<<self.width, 1>>, RatMul(<<2, 1>>, zoom))),
                 !.y = RatSub(center_y, RatDiv(<<self.height, 1>>, RatMul(<<2, 1>>, zoom)))]

\* Camera.set_zoom(zoom)
set_zoom(self, zoom) ==
    Recentre(self,
             RatAdd(self.x, RatDiv(<<self.width, 1>>, RatMul(<<2, 1>>, self.zoom))),
             RatAdd(self.y, RatDiv(<<self.height, 1>>, RatMul(<<2, 1>>, self.zoom))),
             RatMax(MIN_ZOOM, RatMin(MAX_ZOOM, zoom)))

\* Camera.zoom_by(factor)
zoom_by(self, factor) == set_zoom(self, RatMul(self.zoom, factor))

\* Camera.reset(map_width, map_height, tile_width, tile_height)
Camera_reset(self, map_width, map_height, tile_width, tile_height) ==
    [self EXCEPT !.x = <<0, 1>>, !.y = <<0, 1>>,
                 !.zoom = RatMin(RatMin(Rat(self.width, map_width * tile_width),
                                        Rat(self.height, map_height * tile_height)),
                                 <<1, 1>>)]

\* calls issued to one camera
MaxCameraCalls == 3
\* viewports, zoom arguments (0.05 .. 7), factors, drags in screen pixels and
\* maps (width, height in tiles, tile width, tile height in pixels)
Viewports == {<<800, 600>>, <<1280, 720>>}
ZoomArgs == {<<1, 20>>, <<1, 10>>, <<1, 2>>, <<3, 1>>, <<5, 1>>, <<7, 1>>}
ZoomFactors == {<<1, 2>>, <<2, 1>>}
Drags == {<<100, 0>>, <<0, -50>>}
ResetMaps == {<<3, 2, 4, 2>>, <<50, 50, 16, 16>>, <<1000, 1000, 16, 16>>}

InitCamera ==
    /\ pc = "camera"
    /\ tmx = None /\ map3d = None /\ collision = None
    /\ call = NoCall
    /\ edits = 0
    /\ manager = None /\ sprite = None /\ gamepad = None
    /\ \E viewport \in Viewports : camera = Camera(viewport[1], viewport[2])

MoveCamera ==
    /\ pc = "camera" /\ edits < MaxCameraCalls
    /\ \E drag \in Drags :
        /\ camera' = Camera_move(camera, <<drag[1], 1>>, <<drag[2], 1>>)
        /\ call' = [op |-> "move"]
    /\ edits' = edits + 1
    /\ UNCHANGED <<pc, tmx, map3d, collision>>
    /\ UNCHANGED <<manager, sprite, gamepad>>

SetZoom ==
    /\ pc = "camera" /\ edits < MaxCameraCalls
    /\ \E zoom \in ZoomArgs :
        /\ camera' = set_zoom(camera, zoom)
        /\ call' = [op |-> "set_zoom"]
    /\ edits' = edits + 1
    /\ UNCHANGED <<pc, tmx, map3d, collision>>
    /\ UNCHANGED <<manager, sprite, gamepad>>

ZoomBy ==
    /\ pc = "camera" /\ edits < MaxCameraCalls
    /\ \E factor \in ZoomFactors :
        /\ camera' = zoom_by(camera, factor)
        /\ call' = [op |-> "zoom_by"]
    /\ edits' = edits + 1
    /\ UNCHANGED <<pc, tmx, map3d, collision>>
    /\ UNCHANGED <<manager, sprite, gamepad>>

ResetCamera ==
    /\ pc = "camera" /\ edits < MaxCameraCalls
    /\ \E m \in ResetMaps :
        /\ camera' = Camera_reset(camera, m[1], m[2], m[3], m[4])
        /\ call' = [op |-> "reset"]
    /\ edits' = edits + 1
    /\ UNCHANGED <<pc, tmx, map3d, collision>>
    /\ UNCHANGED <<manager, sprite, gamepad>>

NextCamera ==
    \/ MoveCamera
    \/ SetZoom
    \/ ZoomBy
    \/ ResetCamera

SpecCamera == InitCamera /\ [][NextCamera]_vars

(***************************************************************************)
(* Character (src/tmx_explorer/entities/character.py)                      *)
(*                                                                         *)
(* Units: x, y, home_x, home_y, waypoints in 1/PxDen pixels; z, min_z,     *)
(* max_z, collision_height in 1/ZDen levels; collision_width and           *)
(* collision_depth in 1/WDen tiles; speed in whole pixels per second;      *)
(* velocity_x and velocity_y in 1/PxDen pixels per second, velocity_z in   *)
(* 1/ZDen levels per second; dt and the timers in 1/TDen seconds.  The     *)
(* speeds and dt drawn make every product velocity * dt a whole number of  *)
(* position units.  A velocity normalised through math.sqrt is rounded     *)
(* toward zero to whole pixels per second: the square root is irrational   *)
(* in general, and no comparison of the source depends on the rounding.    *)
(* collision_map is "None" or "collision", the CollisionMap of the model.  *)
(* target is <<>> (None) or <<[x, y]>>, a character that stands still.     *)
(***************************************************************************)
\* DEFAULT_COLLISION_WIDTH = 0.5, DEFAULT_COLLISION_DEPTH = 0.5 (1/WDen tiles)
\* and DEFAULT_COLLISION_HEIGHT = 0.85 (1/ZDen levels)
DEFAULT_COLLISION_WIDTH == 1
DEFAULT_COLLISION_DEPTH == 1
DEFAULT_COLLISION_HEIGHT == 17

\* Character.__init__; a collision dimension of None or 0 takes the default
Character(spr, x, y, z, speed, tile_height, is_npc, behavior, collision_width, collision_depth, collision_height) ==
    [sprite |-> spr, x |-> x, y |-> y, z |-> z, speed |-> speed,
     tile_height |-> tile_height,
     velocity_x |-> 0, velocity_y |-> 0, velocity_z |-> 0,
     collision_width |-> IF collision_width = 0 THEN DEFAULT_COLLISION_WIDTH ELSE collision_width,
     collision_depth |-> IF collision_depth = 0 THEN DEFAULT_COLLISION_DEPTH ELSE collision_depth,
     collision_height |-> IF collision_height = 0 THEN DEFAULT_COLLISION_HEIGHT ELSE collision_height,
     collision_map |-> "None", tile_width |-> 32,
     min_z |-> 0, max_z |-> 10 * ZDen,
     is_npc |-> is_npc, behavior |-> behavior, target |-> <<>>,
     patrol_points |-> <<>>, patrol_index |-> 0,
     wander_timer |-> 0, wander_interval |-> 2 * TDen, wander_radius |-> 200 * PxDen,
     home_x |-> x, home_y |-> y,
     idle_timer |-> 0, is_idle_pausing |-> FALSE]

\* Character._can_move_to(px, py, z)
_can_move_to(self, cmap, px, py, z) ==
    IF self.collision_map = "None" THEN TRUE
    ELSE can_move_to_with_size(cmap, px, py, z, self.collision_width, self.collision_depth,
                               self.collision_height, self.tile_width, self.tile_height)

\* Character._can_change_height(new_z)
_can_change_height(self, cmap, new_z) ==
    IF self.collision_map = "None" THEN TRUE
    ELSE can_change_height(cmap, self.x, self.y, self.z, new_z, self.collision_width,
                           self.collision_depth, self.collision_height,
                           self.tile_width, self.tile_height)

\* floor of the square root, by bisection
RECURSIVE SqrtBetween(_, _, _)
SqrtBetween(n, lo, hi) ==
    IF lo >= hi THEN lo
    ELSE IF ((lo + hi + 1) \div 2) * ((lo + hi + 1) \div 2) <= n
         THEN SqrtBetween(n, (lo + hi + 1) \div 2, hi)
         ELSE SqrtBetween(n, lo, (lo + hi + 1) \div 2 - 1)
Sqrt(n) == SqrtBetween(n, 0, U16 \div 2)

\* (d / dist) * speed * factor with dist = math.sqrt(dist2), factor = fnum / fden,
\* in 1/PxDen pixels per second, rounded toward zero to whole pixels per second
Toward(d, dist2, speed, fnum, fden) ==
    PxDen * PyInt(d * speed * fnum, Sqrt(dist2) * fden)

\* Character._behavior_idle()
_behavior_idle(self) == [self EXCEPT !.velocity_x = 0, !.velocity_y = 0]

\* the home boundary check that ends _behavior_wander
HomeBoundary(self, dx, dy) ==
    IF dx * dx + dy * dy > self.wander_radius * self.wander_radius
    THEN [self EXCEPT !.velocity_x = Toward(dx, dx * dx + dy * dy, self.speed, 1, 2),
                      !.velocity_y = Toward(dy, dx * dx + dy * dy, self.speed, 1, 2)]
    ELSE self

\* the decision taken when wander_timer expires; rnd holds the outcomes of
\* random.random() < 0.3, of the three random.uniform calls of the branch
\* taken (angle as <<cos, sin>> in tenths, speed factor in tenths) and of the
\* uniform call that resets the timer
WanderDecision(self, rnd) ==
    IF rnd.pause
    THEN [self EXCEPT !.is_idle_pausing = TRUE, !.idle_timer = rnd.idle_time,
                      !.velocity_x = 0, !.velocity_y = 0,
                      !.wander_timer = rnd.timer]
    ELSE [self EXCEPT !.velocity_x = PyInt(rnd.angle[1] * self.speed * rnd.factor * PxDen, 100),
                      !.velocity_y = PyInt(rnd.angle[2] * self.speed * rnd.factor * PxDen, 100),
                      !.wander_timer = rnd.timer]

\* _behavior_wander from "self.wander_timer -= dt" on
WanderTimer(self, dt, rnd) ==
    IF self.wander_timer - dt <= 0
    THEN WanderDecision(self, rnd)
    ELSE [self EXCEPT !.wander_timer = self.wander_timer - dt]

\* Character._behavior_wander(dt)
_behavior_wander(self, dt, rnd) ==
    IF self.is_idle_pausing /\ self.idle_timer - dt > 0
    THEN [self EXCEPT !.idle_timer = self.idle_timer - dt,
                      !.velocity_x = 0, !.velocity_y = 0]
    ELSE IF self.is_idle_pausing
    THEN HomeBoundary(WanderTimer([self EXCEPT !.idle_timer = self.idle_timer - dt,
                                               !.is_idle_pausing = FALSE], dt, rnd),
                      self.home_x - self.x, self.home_y - self.y)
    ELSE HomeBoundary(WanderTimer(self, dt, rnd), self.home_x - self.x, self.home_y - self.y)

\* faulty variant of PatrolToward: the index runs past the last waypoint
PatrolToward_no_wrap(self, dx, dy) ==
    IF dx * dx + dy * dy < (10 * PxDen) * (10 * PxDen)
    THEN [self EXCEPT !.patrol_index = self.patrol_index + 1]
    ELSE [self EXCEPT !.velocity_x = Toward(dx, dx * dx + dy * dy, self.speed, 1, 2),
                      !.velocity_y = Toward(dy, dx * dx + dy * dy, self.speed, 1, 2)]

\* _behavior_patrol once the current waypoint is known: dx, dy lead to it
PatrolToward(self, dx, dy) ==
    IF dx * dx + dy * dy < (10 * PxDen) * (10 * PxDen)
    THEN [self EXCEPT !.patrol_index = (self.patrol_index + 1) % Len(self.patrol_points)]
    ELSE [self EXCEPT !.velocity_x = Toward(dx, dx * dx + dy * dy, self.speed, 1, 2),
                      !.velocity_y = Toward(dy, dx * dx + dy * dy, self.speed, 1, 2)]

\* Character._behavior_patrol(dt)
_behavior_patrol(self, dt) ==
    IF self.patrol_points = <<>> THEN _behavior_idle(self)
    ELSE PatrolToward(self, self.patrol_points[self.patrol_index + 1][1] - self.x,
                            self.patrol_points[self.patrol_index + 1][2] - self.y)

\* _behavior_follow once a target is known: dx, dy lead to it
FollowToward(self, dx, dy) ==
    IF dx * dx + dy * dy > (80 * PxDen) * (80 * PxDen)
    THEN [self EXCEPT !.velocity_x = Toward(dx, dx * dx + dy * dy, self.speed, 6, 10),
                      !.velocity_y = Toward(dy, dx * dx + dy * dy, self.speed, 6, 10)]
    ELSE [self EXCEPT !.velocity_x = 0, !.velocity_y = 0]

\* Character._behavior_follow(dt)
_behavior_follow(self, dt) ==
    IF self.target = <<>> THEN _behavior_idle(self)
    ELSE FollowToward(self, self.target[1].x - self.x, self.target[1].y - self.y)

\* Character._update_npc_behavior(dt)
_update_npc_behavior(self, dt, rnd) ==
    IF self.behavior = "IDLE" THEN _behavior_idle(self)
    ELSE IF self.behavior = "WANDER" THEN _behavior_wander(self, dt, rnd)
    ELSE IF self.behavior = "PATROL" THEN _behavior_patrol(self, dt)
    ELSE IF self.behavior = "FOLLOW" THEN _behavior_follow(self, dt)
    ELSE self

\* Character._update_direction()
_update_direction(self) ==
    IF Abs(self.velocity_y) > Abs(self.velocity_x)
    THEN [self EXCEPT !.sprite = set_direction(self.sprite,
                                    IF self.velocity_y > 0 THEN "DOWN" ELSE "UP")]
    ELSE IF self.velocity_x # 0
    THEN [self EXCEPT !.sprite = set_direction(self.sprite,
                                    IF self.velocity_x > 0 THEN "RIGHT" ELSE "LEFT")]
    ELSE self

\* faulty variant of TryX: the X step is taken unchecked
TryX_unchecked(self, cmap, new_x) == [self EXCEPT !.x = new_x]

\* "if self._can_move_to(new_x, self.y, self.z): self.x = new_x"
TryX(self, cmap, new_x) ==
    IF _can_move_to(self, cmap, new_x, self.y, self.z) THEN [self EXCEPT !.x = new_x] ELSE self

\* "if self._can_move_to(self.x, new_y, self.z): self.y = new_y"
TryY(self, cmap, new_x, new_y) ==
    IF _can_move_to(self, cmap, self.x, new_y, self.z) THEN [self EXCEPT !.y = new_y] ELSE self

\* step 2 of update: horizontal movement
MoveHorizontally(self, cmap, new_x, new_y) ==
    IF self.velocity_x # 0 \/ self.velocity_y # 0
    THEN (IF self.collision_map # "None"
          THEN _update_direction(TryY(TryX(self, cmap, new_x), cmap, new_x, new_y))
          ELSE _update_direction([self EXCEPT !.x = new_x, !.y = new_y]))
    ELSE self

\* "new_z = max(self.min_z, min(self.max_z, new_z))"
ClampZ(self, new_z) == Max2(self.min_z, Min2(self.max_z, new_z))

\* step 3 of update: vertical movement, new_z already clamped
MoveVertically(self, cmap, new_z) ==
    IF self.velocity_z # 0
    THEN (IF self.collision_map # "None"
          THEN (IF _can_change_height(self, cmap, new_z) THEN [self EXCEPT !.z = new_z] ELSE self)
          ELSE [self EXCEPT !.z = new_z])
    ELSE self

\* step 4 of update: the sprite's animation
Animate(self, dt) ==
    [self EXCEPT !.sprite =
        AnimatedSprite_update(
            set_walking(self.sprite, self.velocity_x # 0 \/ self.velocity_y # 0), dt)]

\* steps 2 to 4 of update
MoveAndAnimate(self, cmap, dt) ==
    Animate(MoveVertically(
                MoveHorizontally(self, cmap,
                                 self.x + (self.velocity_x * dt) \div TDen,
                                 self.y + (self.velocity_y * dt) \div TDen),
                cmap,
                ClampZ(self, self.z + (self.velocity_z * dt) \div TDen)),
            dt)

\* Character.update(dt)
Character_update(self, cmap, dt, rnd) ==
    IF self.is_npc THEN MoveAndAnimate(_update_npc_behavior(self, dt, rnd), cmap, dt)
    ELSE MoveAndAnimate(self, cmap, dt)

\* Character.move(dx, dy, dz): dx, dy whole numbers, dz in hundredths
Character_move(self, dx, dy, dz) ==
    [self EXCEPT
        !.velocity_x = IF dx = 0 /\ dy = 0 THEN 0
                       ELSE IF dx # 0 /\ dy # 0 THEN PyInt(dx * 7071 * self.speed * PxDen, 10000)
                       ELSE dx * self.speed * PxDen,
        !.velocity_y = IF dx = 0 /\ dy = 0 THEN 0
                       ELSE IF dx # 0 /\ dy # 0 THEN PyInt(dy * 7071 * self.speed * PxDen, 10000)
                       ELSE dy * self.speed * PxDen,
        !.velocity_z = PyInt(dz * self.speed * ZDen, 100 * 100)]

\* Character.set_patrol_points(points)
set_patrol_points(self, points) ==
    [self EXCEPT !.patrol_points = points, !.patrol_index = 0]

\* Character.get_depth(): base_offset + y / tile_height + z + 0.5 as the
\* fraction <<numerator, denominator>> of a depth in tenths
get_depth(self) ==
    << base_offset * self.tile_height * PxDen * ZDen
       + 10 * self.y * ZDen
       + 10 * self.z * self.tile_height * PxDen
       + 5 * self.tile_height * PxDen * ZDen,
       self.tile_height * PxDen * ZDen >>

(***************************************************************************)
(* EntityManager (src/tmx_explorer/entities/manager.py)                    *)
(*                                                                         *)
(* characters is the list of Character records, player the index of the    *)
(* player in it (0 for None).  collision_map is "None" or "collision".     *)
(* An optional list argument is [given |-> BOOLEAN, list |-> sequence];    *)
(* collision_size is <<>> (None) or <<width, depth, height>>.              *)
(***************************************************************************)
EntityManager(tile_width, tile_height, collision_map, max_z) ==
    [tile_width |-> tile_width, tile_height |-> tile_height,
     collision_map |-> collision_map, max_z |-> max_z,
     characters |-> <<>>, player |-> 0]

\* faulty variant of _setup_character: the ceiling is the number of levels
_setup_character_max_h(self, character) ==
    [character EXCEPT !.collision_map = self.collision_map,
                      !.tile_width = self.tile_width,
                      !.min_z = 0, !.max_z = self.max_z * ZDen]

\* EntityManager._setup_character(character)
_setup_character(self, character) ==
    [character EXCEPT !.collision_map = self.collision_map,
                      !.tile_width = self.tile_width,
                      !.min_z = 0, !.max_z = (self.max_z - 1) * ZDen]

\* load_sprite: a sprite of the default animation speed, 8 frames per second
load_sprite == AnimatedSprite(8 * SpeedDen)

\* EntityManager.create_character(...): the manager afterwards
create_character(self, x, y, z, speed, is_player, collision_width, collision_depth, collision_height) ==
    [self EXCEPT
        !.characters = Append(self.characters,
            _setup_character(self,
                Character(load_sprite, x, y, z, speed, self.tile_height, FALSE, "IDLE",
                          collision_width, collision_depth, collision_height))),
        !.player = IF is_player THEN Len(self.characters) + 1 ELSE self.player]

\* EntityManager.create_npc(...): the manager afterwards, the NPC last in characters
create_npc(self, x, y, z, speed, behavior, collision_width, collision_depth, collision_height) ==
    [self EXCEPT
        !.characters = Append(self.characters,
            _setup_character(self,
                Character(load_sprite, x, y, z, speed, self.tile_height, TRUE, behavior,
                          collision_width, collision_depth, collision_height)))]

\* "cw, cd, ch = collision_size if collision_size else (None, None, None)"
Unpack(collision_size) == IF collision_size = <<>> THEN <<0, 0, 0>> ELSE collision_size

\* the manager with its last character replaced by npc; the last character
WithLast(self, npc) ==
    [self EXCEPT !.characters[Len(self.characters)] = npc]
Last(self) == self.characters[Len(self.characters)]

\* EntityManager.create_npc_wanderer(...)
create_npc_wanderer(self, x, y, z, radius, speed, collision_size) ==
    WithLast(create_npc(self, x, y, z, speed, "WANDER", Unpack(collision_size)[1],
                        Unpack(collision_size)[2], Unpack(collision_size)[3]),
             [Last(create_npc(self, x, y, z, speed, "WANDER", Unpack(collision_size)[1],
                              Unpack(collision_size)[2], Unpack(collision_size)[3]))
                 EXCEPT !.wander_radius = radius, !.home_x = x, !.home_y = y])

\* "actual_points = points or patrol_points"
ActualPoints(points, patrol_points) ==
    IF points.given /\ points.list # <<>> THEN points.list
    ELSE IF patrol_points.given THEN patrol_points.list
    ELSE <<>>

\* create_npc_patrol once the points are known to be non-empty
PatrolFrom(self, actual_points, z, speed, collision_size) ==
    WithLast(create_npc(self, actual_points[1][1], actual_points[1][2], z, speed, "PATROL",
                        Unpack(collision_size)[1], Unpack(collision_size)[2],
                        Unpack(collision_size)[3]),
             set_patrol_points(
                 Last(create_npc(self, actual_points[1][1], actual_points[1][2], z, speed,
                                 "PATROL", Unpack(collision_size)[1],
                                 Unpack(collision_size)[2], Unpack(collision_size)[3])),
                 actual_points))

\* EntityManager.create_npc_patrol(...): what it raised and the manager afterwards
create_npc_patrol(self, points, patrol_points, z, speed, collision_size) ==
    IF ActualPoints(points, patrol_points) = <<>>
    THEN [raised |-> "ValueError", manager |-> self]
    ELSE [raised |-> "",
          manager |-> PatrolFrom(self, ActualPoints(points, patrol_points), z, speed,
                                 collision_size)]

\* EntityManager.create_npc_follower(...)
create_npc_follower(self, target, x, y, z, speed, collision_size) ==
    WithLast(create_npc(self, x, y, z, speed, "FOLLOW", Unpack(collision_size)[1],
                        Unpack(collision_size)[2], Unpack(collision_size)[3]),
             [Last(create_npc(self, x, y, z, speed, "FOLLOW", Unpack(collision_size)[1],
                              Unpack(collision_size)[2], Unpack(collision_size)[3]))
                 EXCEPT !.target = target])

\* EntityManager.update(dt): every character updated in list order; rnds[i]
\* holds the random outcomes drawn during the update of character i
EntityManager_update(self, cmap, dt, rnds) ==
    [self EXCEPT !.characters =
        [i \in 1 .. Len(self.characters) |->
            Character_update(self.characters[i], cmap, dt, rnds[i])]]

(***************************************************************************)
(* Characters on a map: an arena of Arena.W x Arena.D tiles on Arena.H     *)
(* levels, its tiles ArenaTile pixels wide, with walls in some cells.      *)
(* Every character runs at RunSpeed pixels per second, which puts the      *)
(* diagonal velocity 0.7071 * speed and every step of TickDts on the       *)
(* 1/PxDen pixel grid.  edits counts the ticks.                            *)
(***************************************************************************)
MaxTicks == 2

ArenaTile == 64 * 32
RunSpeed == 50 * 100
\* dt of a tick: 0.5 and 1 second
TickDts == {2, 4}

\* the arenas: no wall; a wall across tile column 1 on the ground level and
\* a block in tile (2, 1) on the upper level
ArenaWalls ==
    { {}, {<<1, 0, 0>>, <<1, 1, 0>>, <<2, 1, 1>>} }

RECURSIVE BuildWalls(_, _)
BuildWalls(self, walls) ==
    IF walls = {} THEN self
    ELSE LET c == CHOOSE c \in walls : TRUE
         IN  BuildWalls(set_flags(self, c[1], c[2], c[3], 1), walls \ {c})

Arena(walls) == BuildWalls(CollisionMap(3, 2, 2), walls)

\* the centre of tile t
TileCentre(t) == t * ArenaTile * PxDen + (ArenaTile * PxDen) \div 2

\* where a character is put: the centres of tiles (0, 0), (1, 0) and (2, 1)
StartSpots == {<<TileCentre(0), TileCentre(0)>>, <<TileCentre(1), TileCentre(0)>>,
               <<TileCentre(2), TileCentre(1)>>}
\* heights at creation: the ground, half a level up, the top level
StartHeights(self) == {0, ZDen \div 2, (self.max_z - 1) * ZDen}
\* collision boxes: the defaults, or a box one tile wide and one level high
BoxSizes == {<<0, 0, 0>>, <<WDen, WDen, ZDen>>}
CollisionSizes == {<<>>, <<WDen, WDen, ZDen>>}

\* the arguments <<dx, dy, dz>> of move: the directions of the keys, and dz
\* in hundredths of the unit step
KeyMoves ==
    {<<0, 0, 0>>, <<1, 0, 0>>, <<1, 1, 0>>, <<-1, -1, 2>>, <<0, 1, -2>>, <<0, 0, 100>>}

\* waypoint lists: a single point, two points half a second's run apart, and
\* two points 5 pixels apart
WaypointA == <<TileCentre(0), TileCentre(0)>>
WaypointB == <<TileCentre(0) + (RunSpeed \div 2) * PxDen, TileCentre(0)>>
WaypointC == <<TileCentre(0) + 5 * PxDen, TileCentre(0)>>
PointLists ==
    {[given |-> FALSE, list |-> <<>>], [given |-> TRUE, list |-> <<>>],
     [given |-> TRUE, list |-> <<WaypointA>>],
     [given |-> TRUE, list |-> <<WaypointA, WaypointB>>],
     [given |-> TRUE, list |-> <<WaypointA, WaypointC>>]}

\* the random outcomes of one wander decision: the pause (random() < 0.3), its
\* length (1 or 3 seconds), the direction <<cos, sin>> in tenths, the speed
\* factor in tenths (0.3 or 0.7) and the next timer (1 or 2 seconds)
NoDraw == [pause |-> FALSE, idle_time |-> 0, angle |-> <<0, 0>>, factor |-> 0, timer |-> 0]
WanderOutcomes ==
    {[pause |-> TRUE, idle_time |-> t, angle |-> <<0, 0>>, factor |-> 0, timer |-> w] :
        t \in {TDen, 3 * TDen}, w \in {TDen, 2 * TDen}}
    \cup {[pause |-> FALSE, idle_time |-> 0, angle |-> a, factor |-> f, timer |-> w] :
              a \in {<<10, 0>>, <<-6, 8>>}, f \in {3, 7}, w \in {TDen, 2 * TDen}}

\* the outcomes drawn while character self is updated: random is called only
\* by a wandering NPC whose timer expires outside a pause
Draws(self, dt) ==
    IF /\ self.is_npc /\ self.behavior = "WANDER"
       /\ ~(self.is_idle_pausing /\ self.idle_timer - dt > 0)
       /\ self.wander_timer - dt <= 0
    THEN WanderOutcomes
    ELSE {NoDraw}

InitEntity ==
    /\ pc = "entity"
    /\ tmx = None
    /\ map3d = None
    /\ \E walls \in ArenaWalls : collision = Arena(walls)
    /\ call = NoCall
    /\ edits = 0
    /\ \E attached \in {"collision", "None"} :
        manager = EntityManager(ArenaTile, ArenaTile, attached, collision.H)
    /\ sprite = None /\ gamepad = None /\ camera = None

\* entity_manager.create_character(..., is_player=True)
CreateCharacter ==
    /\ pc = "entity" /\ manager.characters = <<>>
    /\ \E at \in StartSpots, z \in StartHeights(manager), box \in BoxSizes :
        /\ manager' = create_character(manager, at[1], at[2], z, RunSpeed, TRUE,
                                       box[1], box[2], box[3])
        /\ call' = [op |-> "create_character"]
    /\ UNCHANGED <<world, sprite, gamepad, camera>>

\* entity_manager.create_npc(..., behavior=NPCBehavior.IDLE)
CreateNpc ==
    /\ pc = "entity" /\ manager.characters = <<>>
    /\ \E at \in StartSpots, z \in StartHeights(manager), box \in BoxSizes :
        /\ manager' = create_npc(manager, at[1], at[2], z, RunSpeed, "IDLE",
                                 box[1], box[2], box[3])
        /\ call' = [op |-> "create_npc"]
    /\ UNCHANGED <<world, sprite, gamepad, camera>>

\* entity_manager.create_npc_wanderer(...)
CreateNpcWanderer ==
    /\ pc = "entity" /\ manager.characters = <<>>
    /\ \E at \in StartSpots, z \in StartHeights(manager), size \in CollisionSizes,
          radius \in {200 * PxDen, ArenaTile * PxDen} :
        /\ manager' = create_npc_wanderer(manager, at[1], at[2], z, radius, RunSpeed, size)
        /\ call' = [op |-> "create_npc_wanderer"]
    /\ UNCHANGED <<world, sprite, gamepad, camera>>

\* entity_manager.create_npc_patrol(...)
CreateNpcPatrol ==
    /\ pc = "entity" /\ manager.characters = <<>>
    /\ \E points \in PointLists, patrol_points \in PointLists,
          z \in StartHeights(manager), size \in CollisionSizes :
        /\ manager' = create_npc_patrol(manager, points, patrol_points, z, RunSpeed,
                                        size).manager
        /\ call' = [op |-> "create_npc_patrol",
                    actual_points |-> ActualPoints(points, patrol_points),
                    raised |-> create_npc_patrol(manager, points, patrol_points, z,
                                                 RunSpeed, size).raised]
    /\ UNCHANGED <<world, sprite, gamepad, camera>>

\* entity_manager.create_npc_follower(...): the target stands at spot
CreateNpcFollower ==
    /\ pc = "entity" /\ manager.characters = <<>>
    /\ \E at \in StartSpots, spot \in StartSpots, z \in StartHeights(manager),
          size \in CollisionSizes :
        /\ manager' = create_npc_follower(manager, <<[x |-> spot[1], y |-> spot[2]]>>,
                                          at[1], at[2], z, RunSpeed, size)
        /\ call' = [op |-> "create_npc_follower"]
    /\ UNCHANGED <<world, sprite, gamepad, camera>>

\* npc.set_patrol_points(points) on a character of the manager
SetPatrolPoints ==
    /\ pc = "entity"
    /\ \E i \in 1 .. Len(manager.characters), points \in PointLists :
        /\ manager.characters[i].behavior = "PATROL"
        /\ points.given
        /\ manager' = [manager EXCEPT
                          !.characters[i] = set_patrol_points(@, points.list)]
        /\ call' = [op |-> "set_patrol_points", i |-> i]
    /\ UNCHANGED <<world, sprite, gamepad, camera>>

\* player.move(dx, dy, dz), as _update_player_movement calls it from the keys
MoveCharacter ==
    /\ pc = "entity" /\ manager.player # 0
    /\ \E d \in KeyMoves :
        /\ manager' = [manager EXCEPT
                          !.characters[manager.player] = Character_move(@, d[1], d[2], d[3])]
        /\ call' = [op |-> "move", i |-> manager.player]
    /\ UNCHANGED <<world, sprite, gamepad, camera>>

\* entity_manager.update(dt), one tick of the main loop; the call keeps the
\* characters as they were before it
UpdateEntities ==
    /\ pc = "entity" /\ manager.characters # <<>> /\ edits < MaxTicks
    /\ \E dt \in TickDts :
       \E rnds \in [1 .. Len(manager.characters) -> WanderOutcomes \cup {NoDraw}] :
        /\ \A i \in DOMAIN rnds : rnds[i] \in Draws(manager.characters[i], dt)
        /\ manager' = EntityManager_update(manager, collision, dt, rnds)
        /\ call' = [op |-> "update", dt |-> dt, rnds |-> rnds,
                    before |-> manager.characters]
    /\ edits' = edits + 1
    /\ UNCHANGED <<pc, tmx, map3d, collision, sprite, gamepad, camera>>

NextEntity ==
    \/ CreateCharacter
    \/ CreateNpc
    \/ CreateNpcWanderer
    \/ CreateNpcPatrol
    \/ CreateNpcFollower
    \/ SetPatrolPoints
    \/ MoveCharacter
    \/ UpdateEntities

SpecEntity == InitEntity /\ [][NextEntity]_vars

(***************************************************************************)
(* The scene of the application: the map of TMXExplorer.__init__, its      *)
(* EntityManager and a player placed on the map.                           *)
(***************************************************************************)
\* self.entity_manager = EntityManager(tile_width=..., tile_height=...,
\*                                     collision_map=..., max_z=self.map_3d.H)
CreateEntityManager ==
    /\ pc = "built" /\ manager = None
    /\ manager' = EntityManager(map3d.tile_width, map3d.tile_height, "collision", map3d.H)
    /\ call' = [op |-> "EntityManager"]
    /\ UNCHANGED <<world, sprite, gamepad, camera>>

\* pixel positions of a row of tiles: its first line, its middle, its last quarter pixel
RowPixels(row, tile_size) ==
    {row * tile_size * PxDen, row * tile_size * PxDen + (tile_size * PxDen) \div 2,
     (row + 1) * tile_size * PxDen - 1}

\* the player placed on a tile of the map, at a whole level
CreatePlayer ==
    /\ pc = "built" /\ manager # None /\ manager.characters = <<>>
    /\ \E col \in 0 .. map3d.W - 1, row \in 0 .. map3d.D - 1, z \in 0 .. map3d.H - 1 :
       \E x \in RowPixels(col, map3d.tile_width), y \in RowPixels(row, map3d.tile_height) :
        /\ manager' = create_character(manager, x, y, z * ZDen, 100, TRUE, 0, 0, 0)
        /\ call' = [op |-> "create_character"]
    /\ UNCHANGED <<world, sprite, gamepad, camera>>

\* depth = character.get_depth(), as collect_render_data calls it
GetDepth ==
    /\ pc = "built" /\ manager # None
    /\ \E i \in 1 .. Len(manager.characters) :
        call' = [op |-> "get_depth", i |-> i, ret |-> get_depth(manager.characters[i])]
    /\ UNCHANGED <<world, manager, sprite, gamepad, camera>>

NextScene ==
    \/ Construct
    \/ CreateEntityManager
    \/ CreatePlayer
    \/ GetDepth

SpecScene == InitStack /\ [][NextScene]_vars

(***************************************************************************)
(* Map3DStructure: collision checking (map/structure.py).  Both methods    *)
(* delegate to a method of CollisionMap; the call is modelled as Python    *)
(* makes it: the attribute is looked up in the class, then the arguments   *)
(* are bound to the parameters.  A call is [raised, ret], ret being <<>>   *)
(* when the call raised and <<value>> otherwise.                           *)
(***************************************************************************)
\* the methods that class CollisionMap defines
CollisionMapMethods ==
    {"__init__", "set_flags", "get_flags", "is_solid", "is_walkable", "_in_bounds",
     "pixel_to_tile", "get_z_levels_to_check", "can_move_to_with_size",
     "can_change_height", "get_stats"}

\* the parameters of CollisionMap.can_move_to_with_size after self; none has a default
can_move_to_with_size_params ==
    <<"px", "py", "z", "char_width", "char_depth", "char_height", "tile_width", "tile_height">>

\* self.collision.<name>: AttributeError if the class has no such attribute
GetAttr(methods, name) == IF name \in methods THEN "" ELSE "AttributeError"

\* positional arguments bound to parameters without defaults
BindArgs(params, args) == IF Len(args) = Len(params) THEN "" ELSE "TypeError"

\* Map3DStructure.is_walkable(px, py, z):
\* "return self.collision.can_move_to(px, py, z, self.tile_width, self.tile_height)"
Map3DStructure_is_walkable(self, px, py, z) ==
    [raised |-> GetAttr(CollisionMapMethods, "can_move_to"), ret |-> <<>>]

\* Map3DStructure.is_walkable_with_size(px, py, z, char_width, char_height):
\* "return self.collision.can_move_to_with_size(px, py, z, char_width, char_height,
\*                                              self.tile_width, self.tile_height)"
Map3DStructure_is_walkable_with_size(self, px, py, z, char_width, char_height) ==
    [raised |-> IF GetAttr(CollisionMapMethods, "can_move_to_with_size") # ""
                THEN GetAttr(CollisionMapMethods, "can_move_to_with_size")
                ELSE BindArgs(can_move_to_with_size_params,
                              <<px, py, z, char_width, char_height,
                                self.tile_width, self.tile_height>>),
     ret |-> <<>>]

\* bounding boxes in pixels: a quarter of a tile, a whole tile
BoxPixels(tile_size) == {(tile_size * PxDen) \div 4, tile_size * PxDen}

\* map_3d.is_walkable(pixel_x, pixel_y, z_level)
MapIsWalkable ==
    /\ pc = "built" /\ Idle
    /\ \E px \in PxArgs(collision, map3d.tile_width), py \in PyArgs(collision, map3d.tile_height),
          z \in ZArgs(collision) :
        call' = [op |-> "Map3DStructure.is_walkable", px |-> px, py |-> py, z |-> z,
                 raised |-> Map3DStructure_is_walkable(map3d, px, py, z * ZDen).raised,
                 ret |-> Map3DStructure_is_walkable(map3d, px, py, z * ZDen).ret]
    /\ UNCHANGED <<pc, tmx, map3d, collision, edits>>
    /\ UNCHANGED entities

\* map_3d.is_walkable_with_size(px, py, z, char_width, char_height)
MapIsWalkableWithSize ==
    /\ pc = "built" /\ Idle
    /\ \E px \in PxArgs(collision, map3d.tile_width), py \in PyArgs(collision, map3d.tile_height),
          z \in ZArgs(collision), char_width \in BoxPixels(map3d.tile_width),
          char_height \in BoxPixels(map3d.tile_height) :
        call' = [op |-> "Map3DStructure.is_walkable_with_size",
                 px |-> px, py |-> py, z |-> z,
                 char_width |-> char_width, char_height |-> char_height,
                 raised |-> Map3DStructure_is_walkable_with_size(
                                map3d, px, py, z * ZDen, char_width, char_height).raised,
                 ret |-> Map3DStructure_is_walkable_with_size(
                             map3d, px, py, z * ZDen, char_width, char_height).ret]
    /\ UNCHANGED <<pc, tmx, map3d, collision, edits>>
    /\ UNCHANGED entities

NextWalkable ==
    \/ Construct
    \/ MapIsWalkable
    \/ MapIsWalkableWithSize
    \/ Return

SpecWalkable == InitRender /\ [][NextWalkable]_vars

(***************************************************************************)
(* Claims about CollisionMap                                               *)
(***************************************************************************)
\* reference notions, stated on the fields and not through the code's helpers
InMap(self, x, y, z) == x \in 0 .. self.W - 1 /\ y \in 0 .. self.D - 1 /\ z \in 0 .. self.H - 1

\* C1: after construction and any set_flags calls, is_solid is true and
\* is_walkable is false for every (x, y, z) outside the map; for cells inside
\* the map is_solid tells whether the stored flags are non-zero and
\* is_walkable is its exact negation.
C1_VoidIsSolid ==
    /\ call.op = "is_solid" =>
         /\ call.ret \in BOOLEAN
         /\ ~InMap(collision, call.x, call.y, call.z) => call.ret = TRUE
         /\ InMap(collision, call.x, call.y, call.z) =>
              call.ret = (collision.data[<<call.z, call.y, call.x>>] # 0)
    /\ call.op = "is_walkable" =>
         /\ call.ret \in BOOLEAN
         /\ ~InMap(collision, call.x, call.y, call.z) => call.ret = FALSE
         /\ call.ret = ~is_solid(collision, call.x, call.y, call.z)

C1_Witness ==
    /\ call.op = "is_walkable"
    /\ call.x = -1 /\ call.y \in 0 .. collision.D - 1 /\ call.z = 0
    /\ call.ret = FALSE
    /\ SolidCount(collision) = 1

\* the four corners of the footprint, in 1/PxDen pixels
CornerSet(c) ==
    {<<c.px + sx * ((c.char_width * c.tile_width * PxDen) \div (2 * WDen)),
       c.py + sy * ((c.char_depth * c.tile_height * PxDen) \div (2 * WDen))>> :
        sx \in {-1, 1}, sy \in {-1, 1}}

SeqElems(s) == {s[i] : i \in 1 .. Len(s)}

CornerBlocked(self, c) ==
    \E corner \in CornerSet(c) :
        \E tz \in SeqElems(get_z_levels_to_check(self, c.z, c.char_height)) :
            LET t == pixel_to_tile(corner[1], corner[2], c.tile_width, c.tile_height)
            IN  is_solid(self, t[1], t[2], tz)

\* the call is a 0.5 x 0.5 footprint standing at level 0 (height 0.85) in the
\* centre of tile (tx, ty)
CentredOn(c, tx, ty) ==
    /\ c.char_width = 1 /\ c.char_depth = 1 /\ c.z = 0 /\ c.char_height = 17
    /\ c.px = tx * c.tile_width * PxDen + (c.tile_width * PxDen) \div 2
    /\ c.py = ty * c.tile_height * PxDen + (c.tile_height * PxDen) \div 2

\* C4: can_move_to_with_size returns false exactly when some corner of the
\* footprint lies in a tile that is solid at some level of
\* get_z_levels_to_check(z, height); a 0.5 x 0.5 entity centred on a solid
\* tile is rejected, one centred two tiles away on walkable ground is accepted.
C4_CornerBlocking ==
    call.op = "can_move_to_with_size" =>
        /\ (call.ret = FALSE) <=> CornerBlocked(collision, call)
        /\ \A tx \in 0 .. collision.W - 1, ty \in 0 .. collision.D - 1 :
             (CentredOn(call, tx, ty) /\ collision.data[<<0, ty, tx>>] # 0)
                => call.ret = FALSE
        /\ \A tx \in 0 .. collision.W - 3, ty \in 0 .. collision.D - 1 :
             ( /\ CentredOn(call, tx + 2, ty)
               /\ collision.data[<<0, ty, tx>>] # 0
               /\ collision.data[<<0, ty, tx + 2>>] = 0 )
                => call.ret = TRUE

C4_Witness ==
    /\ call.op = "can_move_to_with_size"
    /\ \E tx \in 0 .. collision.W - 3, ty \in 0 .. collision.D - 1 :
         /\ CentredOn(call, tx + 2, ty)
         /\ collision.data[<<0, ty, tx>>] # 0
         /\ call.ret = TRUE

\* mathematical floor of num/den
Floor(num, den) == CHOOSE q \in -(MaxH + 4) .. (MaxH + 4) : q * den <= num /\ num < (q + 1) * den

FloorLevels(self, z, h) ==
    LET f == Floor(z, ZDen)
        c == Floor(z + h, ZDen)
    IN  (IF f \in 0 .. self.H - 1 THEN <<f>> ELSE <<>>)
        \o (IF c # f /\ c \in 0 .. self.H - 1 THEN <<c>> ELSE <<>>)

\* C5: for every fractional z (negative included) and entity_height >= 0,
\* get_z_levels_to_check returns the distinct members of
\* {floor(z), floor(z + entity_height)} that lie in [0, H), floor level first.
C5_FloorLevels ==
    call.op = "get_z_levels_to_check" =>
        call.ret = FloorLevels(collision, call.z, call.char_height)

\* C6: can_change_height is false whenever new_z < 0 or new_z >= H; otherwise
\* it is can_move_to_with_size at new_z, whatever current_z is.
C6_HeightChange ==
    call.op = "can_change_height" =>
        IF call.new_z < 0 \/ call.new_z >= collision.H * ZDen
        THEN call.ret = FALSE
        ELSE call.ret = can_move_to_with_size(collision, call.px, call.py, call.new_z,
                                              call.char_width, call.char_depth,
                                              call.char_height, call.tile_width,
                                              call.tile_height)

C6_Witness ==
    /\ call.op = "can_change_height"
    /\ call.new_z = collision.H * ZDen
    /\ call.current_z = 10
    /\ call.ret = FALSE
    /\ can_move_to_with_size(collision, call.px, call.py, call.new_z,
                             call.char_width, call.char_depth, call.char_height,
                             call.tile_width, call.tile_height)
    /\ SolidCount(collision) = 1

\* the corner tiles of the call's footprint
CornerTiles(c) ==
    {pixel_to_tile(corner[1], corner[2], c.tile_width, c.tile_height) : corner \in CornerSet(c)}

\* C11: can_move_to_with_size returns false whenever a corner of the footprint
\* falls in a tile outside [0,W) x [0,D), for every height z, z < 0 and
\* z >= H included.
C11_VoidBlocksMovement ==
    call.op = "can_move_to_with_size" =>
        ((\E t \in CornerTiles(call) :
              ~(t[1] \in 0 .. collision.W - 1 /\ t[2] \in 0 .. collision.D - 1))
            => call.ret = FALSE)

\* the tiles whose cell [tx*tw, (tx+1)*tw) x [ty*th, (ty+1)*th) meets the
\* closed footprint rectangle of the call
OverlappedTiles(self, c) ==
    LET hw == (c.char_width * c.tile_width * PxDen) \div (2 * WDen)
        hd == (c.char_depth * c.tile_height * PxDen) \div (2 * WDen)
        tw == c.tile_width * PxDen
        th == c.tile_height * PxDen
    IN  {tx \in -2 .. self.W + 1 : tx * tw <= c.px + hw /\ c.px - hw < (tx + 1) * tw}
        \X {ty \in -2 .. self.D + 1 : ty * th <= c.py + hd /\ c.py - hd < (ty + 1) * th}

\* solid or out of bounds, read from the fields
BlockedCell(self, tx, ty, tz) ==
    ~InMap(self, tx, ty, tz) \/ self.data[<<tz, ty, tx>>] # 0

RectangleBlocked(self, c) ==
    \E t \in OverlappedTiles(self, c) :
        \E tz \in SeqElems(get_z_levels_to_check(self, c.z, c.char_height)) :
            BlockedCell(self, t[1], t[2], tz)

\* C12: for a footprint narrower and shallower than one tile,
\* can_move_to_with_size returns false exactly when a tile that is solid or
\* out of bounds at a checked level meets the closed footprint rectangle.
C12_SubTileExact ==
    (call.op = "can_move_to_with_size" /\ call.char_width < WDen /\ call.char_depth < WDen)
        => ((call.ret = FALSE) <=> RectangleBlocked(collision, call))

\* a 0.5 x 0.5 footprint across the edge between rows 0 and 1, blocked by
\* the lower row only
C12_Witness ==
    /\ call.op = "can_move_to_with_size"
    /\ call.char_width = 1 /\ call.char_depth = 1 /\ call.z = 0
    /\ call.py = call.tile_height * PxDen + 1
    /\ Cardinality(OverlappedTiles(collision, call)) = 2
    /\ \E t \in OverlappedTiles(collision, call) :
         /\ t[2] = 1 /\ InMap(collision, t[1], 1, 0)
         /\ collision.data[<<0, 1, t[1]>>] # 0
         /\ collision.data[<<0, 0, t[1]>>] = 0
    /\ call.ret = FALSE

\* C13: with width = depth = 0 can_move_to_with_size returns a boolean, true
\* exactly when the tile containing (px, py) is not solid at any level of
\* get_z_levels_to_check(z, h).
C13_PointCheck ==
    (call.op = "can_move_to_with_size" /\ call.char_width = 0 /\ call.char_depth = 0)
        => /\ call.ret \in BOOLEAN
           /\ call.ret = ~(\E tz \in SeqElems(get_z_levels_to_check(collision, call.z,
                                                                     call.char_height)) :
                             BlockedCell(collision,
                                         Floor(call.px, call.tile_width * PxDen),
                                         Floor(call.py, call.tile_height * PxDen), tz))

C13_Witness ==
    /\ call.op = "can_move_to_with_size"
    /\ call.char_width = 0 /\ call.char_depth = 0
    /\ InMap(collision, Floor(call.px, call.tile_width * PxDen),
             Floor(call.py, call.tile_height * PxDen), 0)
    /\ call.z = 0
    /\ call.ret = FALSE

\* C7: for integer pixel coordinates and positive tile sizes pixel_to_tile
\* is the mathematical floor of px / tile_w and py / tile_h.
C7_PixelFloor ==
    call.op = "pixel_to_tile" =>
        /\ call.ret[1] * call.tile_width <= call.px
        /\ call.px < (call.ret[1] + 1) * call.tile_width
        /\ call.ret[2] * call.tile_height <= call.py
        /\ call.py < (call.ret[2] + 1) * call.tile_height
        /\ (call.px = -1 /\ call.py = -1 /\ call.tile_width = 32 /\ call.tile_height = 32)
             => call.ret = <<-1, -1>>

C7_Witness ==
    /\ call.op = "pixel_to_tile"
    /\ call.px = -1 /\ call.py = -1
    /\ call.tile_width = 32 /\ call.tile_height = 32
    /\ call.ret = <<-1, -1>>

(***************************************************************************)
(* Claims about Map3DStructure                                             *)
(***************************************************************************)
InIndex(self, x, y, z, n) ==
    x \in 0 .. self.W - 1 /\ y \in 0 .. self.D - 1 /\ z \in 0 .. self.H - 1 /\ n \in 0 .. self.N - 1

\* C2: get_tile returns 0 whenever a coordinate is outside
\* [0,W) x [0,D) x [0,H) x [0,N), negative values included, after construction
\* and any set_tile calls.
C2_GetTileBounds ==
    (call.op = "get_tile" /\ ~InIndex(map3d, call.x, call.y, call.z, call.layer))
        => call.ret = 0

C2_Witness ==
    /\ call.op = "get_tile"
    /\ edits = 1
    /\ call.x = -1
    /\ InIndex(map3d, 0, call.y, call.z, call.layer)
    /\ map3d.mapa[<<call.z, call.y, map3d.W - 1, call.layer>>] # 0
    /\ call.ret = 0

\* the tile of a GID carries a 'solid' property that is true
IsTrueValue(prop) ==
    \/ prop.t = "bool" /\ prop.v = TRUE
    \/ prop.t = "str" /\ prop.v \in {"true", "True", "TRUE"}
TileIsSolid(tilesets, gid) ==
    \E i \in 1 .. Len(tilesets) :
        \E id \in DOMAIN tilesets[i].tiles :
            /\ tilesets[i].firstgid + id = gid
            /\ "solid" \in DOMAIN tilesets[i].tiles[id].properties
            /\ IsTrueValue(tilesets[i].tiles[id].properties["solid"])

SolidLayerAt(x, y, z) ==
    \E n \in 0 .. map3d.N - 1 :
        /\ map3d.layer_levels[n + 1] = get_level_value(map3d, z)
        /\ get_tile(map3d, x, y, z, n) # 0
        /\ TileIsSolid(tmx.tilesets, get_tile(map3d, x, y, z, n))

\* C3: after construction a cell is solid exactly when some layer at the
\* cell's level holds there a non-zero GID whose tile has a true 'solid'
\* property; a GID without the property never makes a cell solid.
C3_SolidIffSolidTile ==
    pc = "built" =>
        \A x \in 0 .. map3d.W - 1, y \in 0 .. map3d.D - 1, z \in 0 .. map3d.H - 1 :
            is_solid(collision, x, y, z) <=> SolidLayerAt(x, y, z)

C3_Witness ==
    /\ pc = "built" /\ call.op = "Map3DStructure"
    /\ \E x \in 0 .. map3d.W - 1, y \in 0 .. map3d.D - 1, z \in 0 .. map3d.H - 1 :
         /\ is_solid(collision, x, y, z)
         /\ get_tile(map3d, x, y, z, 0) # 0
         /\ ~TileIsSolid(tmx.tilesets, get_tile(map3d, x, y, z, 0))
    /\ \E x \in 0 .. map3d.W - 1, y \in 0 .. map3d.D - 1, z \in 0 .. map3d.H - 1 :
         /\ ~is_solid(collision, x, y, z)
         /\ \E n \in 0 .. map3d.N - 1 : get_tile(map3d, x, y, z, n) \in {2, 4, 5, 6}

\* C8: H = max_level - min_level + 1 and level_offset = -min_level, every
\* layer's level maps into [0, H) and back through get_level_value, no layer
\* is skipped, and layer_levels / layer_names hold N entries in layer order.
C8_LevelRange ==
    /\ call.op = "Map3DStructure" => (call.skipped = 0 /\ call.raised # "IndexError")
    /\ pc = "built" =>
        LET info == map3d.layer_info
            levels == {info[i].level : i \in 1 .. Len(info)}
        IN  /\ map3d.N = Len(info)
            /\ levels = {} => (map3d.H = 1 /\ map3d.level_offset = 0)
            /\ levels # {} =>
                 \E lo \in levels, hi \in levels :
                    /\ \A e \in levels : lo <= e /\ e <= hi
                    /\ map3d.H = hi - lo + 1
                    /\ map3d.level_offset = -lo
            /\ \A i \in 1 .. Len(info) :
                 /\ 0 <= info[i].level + map3d.level_offset
                 /\ info[i].level + map3d.level_offset < map3d.H
                 /\ get_level_value(map3d, info[i].level + map3d.level_offset) = info[i].level
            /\ Len(map3d.layer_levels) = map3d.N
            /\ Len(map3d.layer_names) = map3d.N
            /\ \A i \in 1 .. Len(info) :
                 /\ map3d.layer_levels[i] = info[i].level
                 /\ map3d.layer_names[i] = info[i].name

C8_Witness ==
    /\ pc = "built" /\ call.op = "Map3DStructure"
    /\ map3d.N = 2
    /\ map3d.layer_levels = <<1, -2>>
    /\ map3d.H = 4 /\ map3d.level_offset = 2

\* C9: after construction get_tile(x, y, L + level_offset, n) is the layer's
\* GID at (x, y) inside the clipped area, every other cell of layer n is 0,
\* and layers smaller or larger than the map never make construction fail.
C9_ClippedCopy ==
    /\ pc # "failed"
    /\ pc = "built" =>
        \A n \in 0 .. map3d.N - 1, x \in 0 .. map3d.W - 1,
           y \in 0 .. map3d.D - 1, z \in 0 .. map3d.H - 1 :
            LET info == map3d.layer_info[n + 1]
            IN  get_tile(map3d, x, y, z, n) =
                    IF /\ z = info.level + map3d.level_offset
                       /\ x < info.layer.width /\ y < info.layer.height
                    THEN info.layer.tiles[y * info.layer.width + x + 1]
                    ELSE 0

\* C10: every unsigned 32-bit GID is stored and returned unchanged: after
\* set_tile(x, y, z, n, gid) on an in-bounds cell get_tile(x, y, z, n) = gid,
\* with no wrap-around, truncation or error.
C10_GidPreserved ==
    (call.op = "set_tile" /\ InIndex(map3d, call.x, call.y, call.z, call.layer)) =>
        /\ ~call.raised
        /\ get_tile(map3d, call.x, call.y, call.z, call.layer) = call.gid

\* Map3DStructure stores GIDs modulo 2^16: the clipped copy and set_tile hold
\* for the GID reduced modulo 65536, and construction fails only on overflow
ClippedCopyMod16 ==
    /\ call.op = "Map3DStructure" => call.raised \in {"", "OverflowError"}
    /\ pc = "built" =>
        \A n \in 0 .. map3d.N - 1, x \in 0 .. map3d.W - 1,
           y \in 0 .. map3d.D - 1, z \in 0 .. map3d.H - 1 :
            LET info == map3d.layer_info[n + 1]
            IN  edits = 0 =>
                  get_tile(map3d, x, y, z, n) =
                    IF /\ z = info.level + map3d.level_offset
                       /\ x < info.layer.width /\ y < info.layer.height
                    THEN info.layer.tiles[y * info.layer.width + x + 1] % U16
                    ELSE 0

\* C14: set_tile changes at most the addressed cell of the index; with a
\* coordinate out of bounds it changes nothing and raises nothing; the
\* collision volume and its get_stats are left as they were.
C14_SetTileFrame ==
    [][call'.op = "set_tile" =>
        /\ collision' = collision
        /\ get_stats(collision') = get_stats(collision)
        /\ [map3d' EXCEPT !.mapa = map3d.mapa] = map3d
        /\ \A cell \in DOMAIN map3d.mapa :
             cell # <<call'.z, call'.y, call'.x, call'.layer>>
                => map3d'.mapa[cell] = map3d.mapa[cell]
        /\ ~InIndex(map3d, call'.x, call'.y, call'.z, call'.layer)
             => (map3d' = map3d /\ call'.raised = FALSE)]_vars

\* a solid tile was erased and its cell is still solid in the collision volume
C14_Witness ==
    /\ call.op = "set_tile" /\ call.gid = 0 /\ call.raised = FALSE
    /\ InIndex(map3d, call.x, call.y, call.z, call.layer)
    /\ \A n \in 0 .. map3d.N - 1 : map3d.mapa[<<call.z, call.y, call.x, n>>] = 0
    /\ collision.data[<<call.z, call.y, call.x>>] # 0

\* the in-bounds cells (x, y, z) of a collision map that is_solid reports solid
SolidCells(self) ==
    {c \in (0 .. self.W - 1) \X (0 .. self.D - 1) \X (0 .. self.H - 1) :
        is_solid(self, c[1], c[2], c[3])}

\* the 4 x 4 x 1 map whose only non-zero cell is (2, 3, 0)
OneSolidTileMap(self) ==
    /\ self.W = 4 /\ self.D = 4 /\ self.H = 1
    /\ \A c \in DOMAIN self.data : (self.data[c] # 0) <=> (c = <<0, 3, 2>>)

\* C15: after construction and any set_flags calls, get_stats reports
\* total_tiles = W*D*H, solid_tiles = the number of in-bounds cells that
\* is_solid reports solid, and empty_tiles = total_tiles - solid_tiles; on a
\* 4 x 4 x 1 map whose only solid tile is (2,3,0) exactly that cell is solid
\* and solid_tiles is 1.
C15_Stats ==
    call.op = "get_stats" =>
        /\ call.ret.total_tiles = collision.W * collision.D * collision.H
        /\ call.ret.solid_tiles = Cardinality(SolidCells(collision))
        /\ call.ret.empty_tiles = call.ret.total_tiles - call.ret.solid_tiles
        /\ OneSolidTileMap(collision) =>
             /\ SolidCells(collision) = {<<2, 3, 0>>}
             /\ call.ret.solid_tiles = 1

C15_Witness ==
    /\ call.op = "get_stats"
    /\ OneSolidTileMap(collision)
    /\ collision.data[<<0, 3, 2>>] = 2
    /\ call.ret.solid_tiles = 1 /\ call.ret.total_tiles = 16 /\ call.ret.empty_tiles = 15

(***************************************************************************)
(* Claims about layer extraction                                           *)
(***************************************************************************)
\* the tile layers of a layer tree in depth-first document order, each with
\* the path of the names of its enclosing groups, outermost first, and its
\* own name
RECURSIVE TileLayerPaths(_, _, _)
TileLayerPaths(layers, prefix, i) ==
    IF i > Len(layers) THEN <<>>
    ELSE (IF layers[i].kind = "tile"
          THEN << [layer |-> layers[i], path |-> prefix \o layers[i].name] >>
          ELSE IF layers[i].kind = "group"
          THEN TileLayerPaths(layers[i].layers, prefix \o layers[i].name, 1)
          ELSE <<>>)
         \o TileLayerPaths(layers, prefix, i + 1)

\* number of tile layers in a layer tree
RECURSIVE CountTileLayers(_, _)
CountTileLayers(layers, i) ==
    IF i > Len(layers) THEN 0
    ELSE (IF layers[i].kind = "tile" THEN 1
          ELSE IF layers[i].kind = "group" THEN CountTileLayers(layers[i].layers, 1)
          ELSE 0)
         + CountTileLayers(layers, i + 1)

\* C16: extraction yields one entry per tile layer of the tree, whatever its
\* nesting, none for object layers and groups, and the layer index of a tile
\* layer is its position in depth-first document order, the order of
\* get_all_layers_flat restricted to tile layers.
C16_DepthFirstOrder ==
    pc = "built" =>
        LET ref == TileLayerPaths(tmx.layers, <<>>, 1)
            flat == SelectSeq(get_all_layers_flat(tmx.layers, 1), LAMBDA l : l.kind = "tile")
        IN  /\ map3d.N = CountTileLayers(tmx.layers, 1)
            /\ Len(map3d.layer_info) = map3d.N
            /\ Len(map3d.layer_names) = map3d.N
            /\ Len(ref) = map3d.N
            /\ \A n \in 1 .. map3d.N : map3d.layer_info[n].layer = ref[n].layer
            /\ [n \in 1 .. map3d.N |-> map3d.layer_info[n].layer] = flat

\* a tile layer under two groups sits between tile layers of three depths
C16_Witness ==
    /\ pc = "built"
    /\ map3d.N = 5
    /\ \E n \in 2 .. 4 :
         /\ map3d.layer_info[n].layer.name = <<"L">>
         /\ map3d.layer_info[n - 1].layer.name = <<"Sky">>
         /\ map3d.layer_info[n + 1].layer.name = <<"Water">>
    /\ \E i \in 1 .. Len(tmx.layers) : tmx.layers[i].kind = "group"

\* C17: the name of every extracted tile layer is the path of the names of
\* all its enclosing groups, outermost first, followed by its own name:
\* 'Sky' in the top-level group 'Background' is 'Background/Sky', L in B in
\* top-level A is 'A/B/L', a top-level tile layer keeps its own name.
C17_QualifiedNames ==
    pc = "built" =>
        LET ref == TileLayerPaths(tmx.layers, <<>>, 1)
        IN  /\ Len(map3d.layer_names) = Len(ref)
            /\ \A n \in 1 .. Len(ref) : map3d.layer_names[n] = ref[n].path

\* the property that decides a layer's level: the first present of Z, z, level
LevelProperty(layer) ==
    IF "Z" \in DOMAIN layer.properties THEN <<layer.properties["Z"]>>
    ELSE IF "z" \in DOMAIN layer.properties THEN <<layer.properties["z"]>>
    ELSE IF "level" \in DOMAIN layer.properties THEN <<layer.properties["level"]>>
    ELSE <<>>

\* the level a well-formed value stands for
LevelOf(prop) ==
    IF prop.t = "int" THEN prop.v
    ELSE IF prop.t = "float"
    THEN (IF prop.num >= 0 THEN prop.num \div prop.den ELSE -((-prop.num) \div prop.den))
    ELSE CASE prop.v = "7" -> 7 [] prop.v = "-2" -> -2 [] prop.v = "0x10" -> 16
           [] prop.v = "0b101" -> 5

\* C18: the level of a tile layer is the value of the first property present
\* among Z, z, level, later names being ignored, and 0 when none is present;
\* a float value is truncated toward zero.
C18_LayerLevel ==
    pc = "built" =>
        LET ref == TileLayerPaths(tmx.layers, <<>>, 1)
        IN  /\ Len(map3d.layer_levels) = Len(ref)
            /\ \A n \in 1 .. Len(ref) :
                 map3d.layer_levels[n] =
                    (IF LevelProperty(ref[n].layer) = <<>> THEN 0
                     ELSE LevelOf(LevelProperty(ref[n].layer)[1]))

\* Z = -1.7 with z = 3 gives level -1
C18_Witness ==
    /\ pc = "built"
    /\ \E n \in 1 .. map3d.N :
         /\ DOMAIN map3d.layer_info[n].layer.properties = {"Z", "z"}
         /\ map3d.layer_info[n].layer.properties["Z"].t = "float"
         /\ map3d.layer_info[n].layer.properties["Z"].num < 0
         /\ map3d.layer_levels[n] = -1

\* strings that cannot be coerced to an integer
Malformed(prop) == prop.t = "str" /\ prop.v \in {"abc", "1.5"}

C20_TileDepth ==
    call.op = "collect_visible_tiles_ordered" =>
        /\ \A i \in 1 .. Len(call.ret) :
             call.ret[i].depth = -10000 + 10 * call.ret[i].y + 10 * call.ret[i].z
                                 + call.ret[i].n
        /\ \A i, j \in 1 .. Len(call.ret) :
             LET a == call.ret[i]
                 b == call.ret[j]
             IN  /\ (b.y = a.y + 1 /\ b.z = a.z /\ b.n = a.n) => b.depth = a.depth + 10
                 /\ (b.y = a.y /\ b.z = a.z + 1) => b.depth = a.depth + 10 + (b.n - a.n)
                 /\ (b.y = a.y /\ b.z = a.z /\ b.n = a.n + 1) => b.depth = a.depth + 1

\* tiles one row apart, one level apart and one layer apart are collected
C20_Witness ==
    /\ call.op = "collect_visible_tiles_ordered"
    /\ \E i, j, k \in 1 .. Len(call.ret) :
         /\ call.ret[j].x = call.ret[i].x /\ call.ret[j].y = call.ret[i].y + 1
         /\ call.ret[j].z = call.ret[i].z /\ call.ret[j].n = call.ret[i].n
         /\ call.ret[k].x = call.ret[i].x /\ call.ret[k].y = call.ret[i].y
         /\ call.ret[k].z = call.ret[i].z /\ call.ret[k].n = call.ret[i].n + 1
    /\ \E i, j \in 1 .. Len(call.ret) :
         /\ call.ret[j].x = call.ret[i].x /\ call.ret[j].y = call.ret[i].y
         /\ call.ret[j].z = call.ret[i].z + 1

\* C21: whatever the number N of tile layers of the map, the layer term never
\* overtakes a full unit of y or z: of two collected tiles with the same z
\* and rows y1 < y2, or the same y and levels z1 < z2, the first has the
\* strictly smaller depth, whatever their layer indices.
C21_LayerTermBelowUnit ==
    call.op = "collect_visible_tiles_ordered" =>
        \A i, j \in 1 .. Len(call.ret) :
            LET a == call.ret[i]
                b == call.ret[j]
            IN  /\ (a.z = b.z /\ a.y < b.y) => a.depth < b.depth
                /\ (a.y = b.y /\ a.z < b.z) => a.depth < b.depth

(***************************************************************************)
(* Claims about AnimatedSprite                                             *)
(***************************************************************************)
\* C26: in every state of a sprite driven by set_walking, set_direction and
\* update(dt) with dt >= 0, current_frame is one of 0..3, it is 0 when the
\* sprite is IDLE and one of 1..3 when it is WALKING (the walk cycle wraps
\* 3 -> 1), and set_walking(True) on a walking sprite changes nothing.
C26_FrameOfState ==
    /\ sprite.current_frame \in 0 .. 3
    /\ sprite.state = "IDLE" => sprite.current_frame = 0
    /\ sprite.state = "WALKING" => sprite.current_frame \in 1 .. 3
    /\ sprite.state = "WALKING" => set_walking(sprite, TRUE) = sprite
    /\ (sprite.state = "WALKING" /\ sprite.current_frame = 3)
          => AdvanceFrames(sprite, AnimDen).current_frame = 1

\* a walking sprite on frame 1 with part of a frame on its timer, reached by
\* an update that wrapped the cycle
C26_Witness ==
    /\ sprite.state = "WALKING"
    /\ sprite.current_frame = 1
    /\ sprite.animation_timer > 0
    /\ call.op = "update" /\ call.dt = 13

(***************************************************************************)
(* Claims about GamepadManager                                             *)
(***************************************************************************)
\* C27: after every update(), for every button name, button_just_pressed is
\* true exactly when the button is pressed in the state just read and was
\* released in the state of the frame before; so, while a button is held over
\* consecutive frames, it is true only on the first of them.
C27_JustPressedEdge ==
    [][call'.op = "update" =>
        \A button \in ButtonNames :
            button_just_pressed(gamepad', button)
                = (gamepad'.state[button] /\ ~gamepad.state[button])]_vars

(***************************************************************************)
(* Claims about Camera                                                     *)
(***************************************************************************)
\* C28: in every state reachable from construction by set_zoom, zoom_by,
\* move and reset, the zoom lies within the limits of the class:
\* MIN_ZOOM (0.1) <= zoom <= MAX_ZOOM (5.0).
C28_ZoomWithinLimits ==
    pc = "camera" =>
        /\ ~RatLess(camera.zoom, MIN_ZOOM)
        /\ ~RatLess(MAX_ZOOM, camera.zoom)

\* tiles of layer n exist in row y of level z
RowHasLayer(self, y, z, n) ==
    \E x \in 0 .. self.W - 1 : get_tile(self, x, y, z, n) # 0

\* the depth <<numerator, denominator>> is greater than that of every tile
\* of row y and level z
InFrontOfRow(self, depth, y, z) ==
    \A n \in 0 .. self.N - 1 :
        RowHasLayer(self, y, z, n) => depth[1] > TileDepth(y, z, n) * depth[2]

\* C22: an entity standing in tile row y at the whole level z has a depth
\* strictly greater than every tile of row y and level z, whatever the layer
\* index n of the tile in [0, N)
C22_EntityInFrontOfOwnRow ==
    call.op = "get_depth" =>
        InFrontOfRow(map3d, call.ret,
                     Floor(manager.characters[call.i].y, map3d.tile_height * PxDen),
                     manager.characters[call.i].z \div ZDen)

\* the character's box at its position passes can_move_to_with_size
Fits(self, cmap) ==
    can_move_to_with_size(cmap, self.x, self.y, self.z, self.collision_width,
                          self.collision_depth, self.collision_height,
                          self.tile_width, self.tile_height)

\* the character with the velocities its update moves it by
Steered(self, dt, rnd) ==
    IF self.is_npc THEN _update_npc_behavior(self, dt, rnd) ELSE self

\* each coordinate changed only to a value that passed the check together
\* with the other two coordinates of that moment
EachAxisChecked(before, after, cmap) ==
    /\ after.x # before.x => _can_move_to(before, cmap, after.x, before.y, before.z)
    /\ after.y # before.y => _can_move_to(before, cmap, after.x, after.y, before.z)
    /\ after.z # before.z => /\ before.min_z <= after.z /\ after.z <= before.max_z
                             /\ _can_move_to(before, cmap, after.x, after.y, after.z)

\* an X step that is blocked leaves the Y step to its own check
BlockedXLeavesY(before, after, cmap, new_x, new_y) ==
    /\ new_x # before.x \/ new_y # before.y
    /\ ~_can_move_to(before, cmap, new_x, before.y, before.z)
    /\ _can_move_to(before, cmap, before.x, new_y, before.z)
    => after.x = before.x /\ after.y = new_y

TickIsSafe(before, after, steered, cmap, dt) ==
    /\ Fits(before, cmap) => Fits(after, cmap)
    /\ EachAxisChecked(before, after, cmap)
    /\ BlockedXLeavesY(before, after, cmap,
                       before.x + (steered.velocity_x * dt) \div TDen,
                       before.y + (steered.velocity_y * dt) \div TDen)

\* C24: a character attached to a collision map whose box passed
\* can_move_to_with_size before a tick passes it after the tick; x, y and z
\* change only to values that passed the check with the other two current
\* coordinates; a blocked X step does not prevent the Y step of the tick
C24_NeverInsideObstacle ==
    call.op = "update" =>
        \A i \in 1 .. Len(manager.characters) :
            call.before[i].collision_map = "collision" =>
                TickIsSafe(call.before[i], manager.characters[i],
                           Steered(call.before[i], call.dt, call.rnds[i]),
                           collision, call.dt)

\* a player running diagonally was stopped by the wall in X and moved in Y;
\* in the same tick it rose half a level
C24_Witness ==
    /\ call.op = "update"
    /\ manager.player = 1
    /\ call.before[1].collision_map = "collision"
    /\ call.before[1].velocity_x # 0
    /\ Fits(call.before[1], collision)
    /\ manager.characters[1].x = call.before[1].x
    /\ manager.characters[1].y # call.before[1].y
    /\ manager.characters[1].z # call.before[1].z

\* C25: a character created through the EntityManager of a map of H levels
\* at a height in [0, H-1] stays in [0, H-1] through every move and update
C25_HeightWithinMap ==
    manager # None =>
        \A i \in 1 .. Len(manager.characters) :
            /\ 0 <= manager.characters[i].z
            /\ manager.characters[i].z <= (manager.max_z - 1) * ZDen

\* a tick in which the step upward would have passed the top level
C25_Witness ==
    /\ call.op = "update"
    /\ manager.characters[1].z = (manager.max_z - 1) * ZDen
    /\ call.before[1].z < manager.characters[1].z
    /\ call.before[1].z + (call.before[1].velocity_z * call.dt) \div TDen
           > (manager.max_z - 1) * ZDen

\* the character is within 10 pixels of its current waypoint
NearWaypoint(self) ==
    /\ self.patrol_points # <<>>
    /\ (self.patrol_points[self.patrol_index + 1][1] - self.x)
         * (self.patrol_points[self.patrol_index + 1][1] - self.x)
       + (self.patrol_points[self.patrol_index + 1][2] - self.y)
         * (self.patrol_points[self.patrol_index + 1][2] - self.y)
       < (10 * PxDen) * (10 * PxDen)

\* the index of character after within its list, and changed from before only
\* by an update near the waypoint, to the next index of the loop
PatrolStep(before, after, op) ==
    /\ after.patrol_points # <<>> =>
           0 <= after.patrol_index /\ after.patrol_index < Len(after.patrol_points)
    /\ after.patrol_index # before.patrol_index /\ op # "set_patrol_points" =>
           /\ op = "update"
           /\ before.is_npc /\ before.behavior = "PATROL"
           /\ NearWaypoint(before)
           /\ after.patrol_index = (before.patrol_index + 1) % Len(before.patrol_points)

\* C29: once set_patrol_points was given a non-empty list the index stays
\* within the list; it changes only in an update that finds the NPC within 10
\* pixels of the current waypoint, and then to (index + 1) mod len(points);
\* create_npc_patrol without points raises ValueError and adds no character
C29_PatrolLoops ==
    [][/\ \A i \in 1 .. Len(manager'.characters) :
            /\ manager'.characters[i].patrol_points # <<>> =>
                   manager'.characters[i].patrol_index \in
                       0 .. Len(manager'.characters[i].patrol_points) - 1
            /\ i <= Len(manager.characters) =>
                   PatrolStep(manager.characters[i], manager'.characters[i], call'.op)
       /\ call'.op = "create_npc_patrol" /\ call'.actual_points = <<>> =>
            call'.raised = "ValueError" /\ manager' = manager
       /\ call'.op = "create_npc_patrol" /\ call'.actual_points # <<>> =>
            call'.raised = ""]_vars

\* the NPC at the last of two waypoints went on to the first
C29_Witness ==
    /\ call.op = "update"
    /\ call.before[1].behavior = "PATROL"
    /\ Len(call.before[1].patrol_points) = 2
    /\ call.before[1].patrol_index = 1
    /\ manager.characters[1].patrol_index = 0

\* the NPC stands still if it is in an idle pause
StillIfPausing(self) ==
    self.is_idle_pausing => self.velocity_x = 0 /\ self.velocity_y = 0

\* C30: every call of _behavior_wander(dt) that leaves the wandering NPC in
\* an idle pause leaves it with velocity_x = 0 and velocity_y = 0, wherever
\* the NPC is relative to its home point and whatever random draws
C30_StillWhilePausing ==
    call.op = "update" =>
        \A i \in 1 .. Len(call.before) :
            call.before[i].is_npc /\ call.before[i].behavior = "WANDER" =>
                StillIfPausing(_behavior_wander(call.before[i], call.dt, call.rnds[i]))

\* the tile holding pixel (px, py) is within the map at level z and not solid
PointVerdict(self, coll, px, py, z) ==
    is_walkable(coll, pixel_to_tile_1(px, self.tile_width),
                pixel_to_tile_1(py, self.tile_height), z)

\* C23: Map3DStructure.is_walkable returns, without raising, whether the
\* tile holding the pixel is within the map at that level and not solid;
\* is_walkable_with_size returns a boolean verdict without raising
C23_WalkableReturnsVerdict ==
    /\ call.op = "Map3DStructure.is_walkable" =>
           /\ call.raised = ""
           /\ call.ret = <<PointVerdict(map3d, collision, call.px, call.py, call.z)>>
    /\ call.op = "Map3DStructure.is_walkable_with_size" =>
           /\ call.raised = ""
           /\ call.ret \in {<<TRUE>>, <<FALSE>>}
====
